---- MODULE Spec2Model ----
(***************************************************************************)
(* A model of the trading core of adaptron:                                *)
(*   - core/env.py             StockTradingEnv (reset, step)               *)
(*   - core/risk_management.py RiskManager (gates, positions, breaker)     *)
(* Every float of the program is an exact rational <<n, d>> with d > 0 in  *)
(* lowest terms; every int of the program is an integer.                   *)
(***************************************************************************)
EXTENDS Integers, Sequences, FiniteSets, TLC

(***************************************************************************)
(* Bounds of the model.                                                    *)
(***************************************************************************)
\* longest price series (number of bars of df)
MaxBars == 3
\* initial_balance handed to the constructor of the environment
InitialBalance == 10
\* calendar days are 0 .. MaxDay
MaxDay == 2
\* max_trades_per_day handed to the constructor of the risk manager
max_trades_per_day == 2
\* longest trade_history, of the risk manager and of the live trader; most
\* trades and portfolio values the performance monitor is handed
MaxHistory == 2
\* significant bits of a float
MantissaBits == 6
\* the seconds the alert manager is followed for
MaxClock == 302
\* the seconds the health monitor is followed for
MaxAge == 300
\* most latencies, errors and data checks the health monitor is handed
MaxSamples == 1

(***************************************************************************)
(* Exact arithmetic standing for the program's float arithmetic.           *)
(***************************************************************************)
Abs(x) == IF x < 0 THEN -x ELSE x

RECURSIVE GCD(_, _)
GCD(a, b) == IF b = 0 THEN a ELSE GCD(b, a % b)

\* the rational n/d (d # 0) in lowest terms with a positive denominator
Rat(n, d) ==
    LET s == IF d < 0 THEN -1 ELSE 1
        g == GCD(Abs(n), Abs(d))
    IN  <<(s * n) \div g, (s * d) \div g>>

R(i) == <<i, 1>>
\* the operands are reduced by their common factors before they are multiplied
RAdd(x, y) ==
    LET g == GCD(x[2], y[2])
    IN  Rat(x[1] * (y[2] \div g) + y[1] * (x[2] \div g), (x[2] \div g) * y[2])
RNeg(x) == <<-x[1], x[2]>>
RSub(x, y) == RAdd(x, RNeg(y))
RMul(x, y) ==
    LET g1 == GCD(Abs(x[1]), y[2])
        g2 == GCD(Abs(y[1]), x[2])
    IN  Rat((x[1] \div g1) * (y[1] \div g2), (x[2] \div g2) * (y[2] \div g1))
\* y # 0
RDiv(x, y) == RMul(x, Rat(y[2], y[1]))
RLt(x, y) ==
    LET g == GCD(x[2], y[2])
    IN  x[1] * (y[2] \div g) < y[1] * (x[2] \div g)
RLe(x, y) == ~RLt(y, x)
RMin(x, y) == IF RLe(x, y) THEN x ELSE y
RMax(x, y) == IF RLe(y, x) THEN x ELSE y
RAbs(x) == <<Abs(x[1]), x[2]>>
\* Python's int(x): truncation toward zero
Trunc(x) == IF x[1] >= 0 THEN x[1] \div x[2] ELSE -((-x[1]) \div x[2])

RECURSIVE RSum(_)
RSum(s) == IF s = <<>> THEN R(0) ELSE RAdd(Head(s), RSum(Tail(s)))

(***************************************************************************)
(* Binary floating point. A Python float is a binary fraction with a       *)
(* fixed number of significant bits, and every arithmetic operation        *)
(* returns the representable value nearest to the exact result, ties to    *)
(* the even one. The model keeps MantissaBits bits where a double keeps    *)
(* 53, so that rounding shows on small numbers.                            *)
(***************************************************************************)
RECURSIVE Pow2(_)
Pow2(k) == IF k = 0 THEN 1 ELSE 2 * Pow2(k - 1)

\* x > 0 scaled by a power of two into [2^(MantissaBits-1), 2^MantissaBits):
\* the scaled value and the exponent, x = scaled * 2^e
RECURSIVE Normalised(_, _)
Normalised(x, e) ==
    IF ~RLt(x, R(Pow2(MantissaBits))) THEN Normalised(RDiv(x, R(2)), e + 1)
    ELSE IF RLt(x, R(Pow2(MantissaBits - 1)))
         THEN Normalised(RMul(x, R(2)), e - 1)
    ELSE <<x, e>>

\* the integer nearest to x >= 0, ties to even
NearestEven(x) ==
    LET lo == x[1] \div x[2]
        twice == RMul(RSub(x, R(lo)), R(2))
    IN  IF RLt(R(1), twice) \/ (twice = R(1) /\ lo % 2 = 1)
        THEN lo + 1 ELSE lo

\* the float nearest to the exact value x
Fl(x) ==
    IF x[1] = 0 THEN x
    ELSE LET n == Normalised(RAbs(x), 0)
             mant == NearestEven(n[1])
             mag == IF n[2] >= 0 THEN R(mant * Pow2(n[2]))
                    ELSE Rat(mant, Pow2(-n[2]))
         IN  IF x[1] < 0 THEN RNeg(mag) ELSE mag

\* float *, / as the interpreter computes them
FMul(x, y) == Fl(RMul(x, y))
FDiv(x, y) == Fl(RDiv(x, y))

(***************************************************************************)
(* State.                                                                  *)
(***************************************************************************)
VARIABLES
    \* ---- StockTradingEnv (core/env.py) ----
    df,                  \* the Original_Close column: a sequence of prices
    transaction_cost,    \* constructor parameter, a rational in [0, 1)
    max_position_size,   \* constructor parameter, a rational in (0, 1]
    current_step,
    balance,
    shares_held,
    total_shares_bought,
    total_shares_sold,
    total_trades,
    net_worth,
    max_net_worth,
    returns,
    portfolio_values,
    env_ret,             \* the last call on the environment and what it returned
    \* ---- RiskManager (core/risk_management.py) ----
    positions,           \* symbol -> position_info, for the open positions
    daily_start_value,   \* a float, or None
    peak_portfolio_value,
    trades_today,
    current_date,        \* a day, or NoDate
    trading_enabled,
    circuit_breaker_triggered,
    trade_history,
    today,               \* date.today(), the calendar of the machine
    trip_cause,          \* history: the check that set the breaker
    emergency_stopped,   \* history: emergency_stop called, resume_trading not yet
    rm_ret,              \* the last call on the risk manager and what it returned
    \* ---- the state file of RiskManager.save_state / load_state ----
    state_file,          \* the JSON document at filepath, or NoFile
    saved_manager,       \* history: the manager as it was when it was saved
    \* ---- calculate_slippage_zerodha (_archived/zerodha/data_zerodha.py) ----
    slip_ret,            \* the last call of the slippage function
    \* ---- AlertManager (core/monitoring.py) ----
    clock,               \* datetime.now(), in seconds
    email_config,        \* TRUE when an email configuration was handed over
    telegram_config,     \* TRUE when a Telegram configuration was handed over
    alert_history,
    last_alert_time,     \* alert_type -> time, for the types stamped so far
    sent,                \* history: the messages handed to a channel
    threads,             \* the position of each thread inside alert
    am_ret,              \* the last call of alert and what it did
    \* ---- HealthMonitor (core/monitoring.py) ----
    max_latency_ms,
    latencies,
    errors,
    data_quality_checks,
    last_data_update,    \* a time, or NoTime
    consecutive_errors,
    hm_ret,              \* the last call on the health monitor
    \* ---- PerformanceMonitor (core/monitoring.py) ----
    initial_capital,
    pm_trades,           \* self.trades
    equity_curve,
    daily_returns,
    peak_equity,
    perf_max_drawdown,   \* self.max_drawdown
    wins,
    losses,
    total_pnl,
    pm_ret,              \* the last call on the performance monitor
    \* ---- ZerodhaLiveTrader (_archived/zerodha/live_trade_zerodha.py) ----
    paper_trading,
    live_balance,        \* self.balance
    live_shares_held,    \* self.shares_held
    live_trade_history,  \* self.trade_history
    broker_orders,       \* the orders the broker has taken
    live_ret             \* the last call on the live trader

envConfig == <<df, transaction_cost, max_position_size>>
envState == <<current_step, balance, shares_held, total_shares_bought,
              total_shares_sold, total_trades, net_worth, max_net_worth,
              returns, portfolio_values>>
envVars == <<envConfig, envState, env_ret>>

riskState == <<positions, daily_start_value, peak_portfolio_value,
               trades_today, current_date, trading_enabled,
               circuit_breaker_triggered, trade_history>>
riskVars == <<riskState, today, trip_cause, emergency_stopped, rm_ret>>

persistVars == <<state_file, saved_manager>>

slipVars == <<slip_ret>>

alertState == <<alert_history, last_alert_time, sent>>
alertVars == <<email_config, telegram_config, alertState, threads, am_ret>>

healthState == <<latencies, errors, data_quality_checks, last_data_update,
                 consecutive_errors>>
healthVars == <<max_latency_ms, healthState, hm_ret>>

perfState == <<pm_trades, equity_curve, daily_returns, peak_equity,
               perf_max_drawdown, wins, losses, total_pnl>>
perfVars == <<initial_capital, perfState, pm_ret>>

monitorVars == <<clock, alertVars, healthVars, perfVars>>

liveVars == <<paper_trading, live_balance, live_shares_held,
              live_trade_history, broker_orders, live_ret>>

vars == <<envVars, riskVars, persistVars, slipVars, monitorVars, liveVars>>

(***************************************************************************)
(* StockTradingEnv                                                         *)
(***************************************************************************)
\* action_space: Box(low=-1, high=1); the values the driver hands to step
Actions == {Rat(-1, 1), Rat(-1, 2), R(0), Rat(1, 2), R(1)}
TransactionCosts == {R(0), Rat(1, 10)}
MaxPositionSizes == {Rat(1, 2), R(1)}

RECURSIVE SeqsOfLen(_, _)
SeqsOfLen(S, n) ==
    IF n = 0 THEN {<<>>}
    ELSE {Append(s, x) : s \in SeqsOfLen(S, n - 1), x \in S}

\* the Original_Close of a bar: with a balance of 10 and a fee of 1/10, buying
\* for the whole balance is funded at 3 (3 shares, 9.9) and not at 2 (5
\* shares, 11)
Prices == {2, 3}

\* the price series the environment is constructed on
PriceSeries == UNION {SeqsOfLen(Prices, n) : n \in 2 .. MaxBars}

\* price series that begin with a price of 2 and hold a price of 0
ZeroPriceSeries ==
    {s \in UNION {SeqsOfLen({0, 2}, n) : n \in 2 .. MaxBars} :
        s[1] = 2 /\ \E i \in DOMAIN s : s[i] = 0}

\* df.iloc[step] exists
InRange(step) == step >= 0 /\ step < Len(df)

\* _get_price_at_step(step), for a step in range
PriceAt(step) == R(df[step + 1])

\* balance + shares_held * current_price
PortfolioValue(bal, shares, price) == RAdd(bal, RMul(R(shares), price))

\* what the callers of the environment see of the portfolio before a call
EnvSnapshot ==
    [current_step |-> current_step, balance |-> balance,
     shares_held |-> shares_held, total_trades |-> total_trades,
     total_shares_bought |-> total_shares_bought,
     total_shares_sold |-> total_shares_sold]

\* info = {}: the mapping step returns on a non-terminal step
NoInfo ==
    [keys |-> {}, total_return |-> R(0), sharpe_ratio |-> R(0),
     sharpe_guard |-> FALSE, max_drawdown |-> R(0), total_trades |-> 0,
     final_balance |-> R(0), buy_hold_return |-> R(0),
     profit_vs_buy_hold |-> R(0)]

\* a reset that keeps the returns and portfolio values of the episode before
EnvResetKeepingHistory ==
    /\ current_step' = 0
    /\ balance' = R(InitialBalance)
    /\ shares_held' = 0
    /\ total_shares_bought' = 0
    /\ total_shares_sold' = 0
    /\ total_trades' = 0
    /\ net_worth' = R(InitialBalance)
    /\ max_net_worth' = R(InitialBalance)
    /\ env_ret' = [op |-> "reset", action |-> R(0), raised |-> FALSE,
                   terminated |-> FALSE, info |-> NoInfo, pre |-> EnvSnapshot]
    /\ UNCHANGED <<envConfig, returns, portfolio_values>>

EnvReset ==
    /\ current_step' = 0
    /\ balance' = R(InitialBalance)
    /\ shares_held' = 0
    /\ total_shares_bought' = 0
    /\ total_shares_sold' = 0
    /\ total_trades' = 0
    /\ net_worth' = R(InitialBalance)
    /\ max_net_worth' = R(InitialBalance)
    /\ returns' = <<>>
    /\ portfolio_values' = <<R(InitialBalance)>>
    /\ env_ret' = [op |-> "reset", action |-> R(0), raised |-> FALSE,
                   terminated |-> FALSE, info |-> NoInfo, pre |-> EnvSnapshot]
    /\ UNCHANGED envConfig

\* the environment as __init__ leaves it: the parameters kept, then reset()
EnvConstructed(series, costs, sizes) ==
    /\ df \in series
    /\ transaction_cost \in costs
    /\ max_position_size \in sizes
    /\ current_step = 0
    /\ balance = R(InitialBalance)
    /\ shares_held = 0
    /\ total_shares_bought = 0
    /\ total_shares_sold = 0
    /\ total_trades = 0
    /\ net_worth = R(InitialBalance)
    /\ max_net_worth = R(InitialBalance)
    /\ returns = <<>>
    /\ portfolio_values = <<R(InitialBalance)>>
    /\ env_ret = [op |-> "reset", action |-> R(0), raised |-> FALSE,
                  terminated |-> FALSE, info |-> NoInfo,
                  pre |-> [current_step |-> 0, balance |-> R(InitialBalance),
                           shares_held |-> 0, total_trades |-> 0,
                           total_shares_bought |-> 0, total_shares_sold |-> 0]]

\* buy_amount = self.balance * min(abs(action), self.max_position_size)
BuyAmount(action, bal) == RMul(bal, RMin(RAbs(action), max_position_size))

\* shares_to_buy = int(buy_amount / current_price)
SharesToBuy(action, bal, price) == Trunc(RDiv(BuyAmount(action, bal), price))

\* transaction_fee = cost * self.transaction_cost, for a buy or a sell
TransactionFee(notional) == RMul(notional, transaction_cost)

\* a cost that leaves the fee out
TotalCostWithoutFee(shares, price) == RMul(R(shares), price)

\* total_cost = cost + transaction_fee
TotalCost(shares, price) ==
    LET cost == RMul(R(shares), price)
    IN  RAdd(cost, TransactionFee(cost))

\* the funding test left out
BuyFundedUnchecked(total_cost, bal) == TRUE

\* if total_cost <= self.balance
BuyFunded(total_cost, bal) == RLe(total_cost, bal)

\* a sell of everything held, whatever the action's size
SharesToSellAll(action, shares) == shares

\* shares_to_sell = int(self.shares_held * min(abs(action), 1.0))
SharesToSell(action, shares) ==
    Trunc(RMul(R(shares), RMin(RAbs(action), R(1))))

\* net_revenue = revenue - transaction_fee
NetRevenue(shares, price) ==
    LET revenue == RMul(R(shares), price)
    IN  RSub(revenue, TransactionFee(revenue))

\* a hold that is counted as a trade
NoTradeCounted ==
    [balance |-> balance, shares_held |-> shares_held,
     total_shares_bought |-> total_shares_bought,
     total_shares_sold |-> total_shares_sold,
     total_trades |-> total_trades + 1, fee |-> R(0)]

\* the portfolio as _execute_trade leaves it, and the fee it returns
NoTrade ==
    [balance |-> balance, shares_held |-> shares_held,
     total_shares_bought |-> total_shares_bought,
     total_shares_sold |-> total_shares_sold,
     total_trades |-> total_trades, fee |-> R(0)]

ExecuteBuy(action, price) ==
    LET n == SharesToBuy(action, balance, price)
        total_cost == TotalCost(n, price)
    IN  IF n > 0 /\ BuyFunded(total_cost, balance)
        THEN [balance |-> RSub(balance, total_cost),
              shares_held |-> shares_held + n,
              total_shares_bought |-> total_shares_bought + n,
              total_shares_sold |-> total_shares_sold,
              total_trades |-> total_trades + 1,
              fee |-> TransactionFee(RMul(R(n), price))]
        ELSE NoTrade

\* a sell sized like a buy, from the cash balance, whatever is held
ExecuteSellUnowned(action, price) ==
    LET m == SharesToBuy(action, balance, price)
    IN  IF m > 0
        THEN [balance |-> RAdd(balance, NetRevenue(m, price)),
              shares_held |-> shares_held - m,
              total_shares_bought |-> total_shares_bought,
              total_shares_sold |-> total_shares_sold + m,
              total_trades |-> total_trades + 1,
              fee |-> TransactionFee(RMul(R(m), price))]
        ELSE NoTrade

ExecuteSell(action, price) ==
    LET m == SharesToSell(action, shares_held)
    IN  IF shares_held > 0 /\ m > 0
        THEN [balance |-> RAdd(balance, NetRevenue(m, price)),
              shares_held |-> shares_held - m,
              total_shares_bought |-> total_shares_bought,
              total_shares_sold |-> total_shares_sold + m,
              total_trades |-> total_trades + 1,
              fee |-> TransactionFee(RMul(R(m), price))]
        ELSE NoTrade

ExecuteTrade(action, price) ==
    IF RLt(R(0), action) THEN ExecuteBuy(action, price)
    ELSE IF RLt(action, R(0)) THEN ExecuteSell(action, price)
    ELSE NoTrade

\* _calculate_reward, called after the trade and before current_step moves:
\* the reward and the max_net_worth it leaves
CalculateReward(fee, bal, shares) ==
    LET price == PriceAt(current_step)
        value == PortfolioValue(bal, shares, price)
        prev == portfolio_values[Len(portfolio_values)]
        r1 == RMul(RDiv(RSub(value, prev), prev), R(100))
        r2 == RSub(r1, RMul(RDiv(fee, R(InitialBalance)), R(2)))
        market_return == RSub(RDiv(price, PriceAt(0)), R(1))
        total_return == RSub(RDiv(value, R(InitialBalance)), R(1))
        r3 == IF /\ Len(portfolio_values) > 50
                 /\ current_step % 50 = 0
                 /\ RLt(market_return, total_return)
              THEN RAdd(r2, RMul(RSub(total_return, market_return), R(20)))
              ELSE r2
        high == RLt(max_net_worth, value)
    IN  [reward |-> IF high THEN RAdd(r3, Rat(1, 2)) ELSE r3,
         max_net_worth |-> IF high THEN value ELSE max_net_worth]

\* np.std(returns_array) > 0: the rewards are not all equal
StdPositive(rs) == \E i, j \in 1 .. Len(rs) : rs[i] # rs[j]

\* np.mean(returns_array)
Mean(rs) == RDiv(RSum(rs), R(Len(rs)))

\* np.maximum.accumulate(portfolio_values_array)[i]
RECURSIVE CumulativeMax(_, _)
CumulativeMax(pv, i) ==
    IF i = 1 THEN pv[1] ELSE RMax(CumulativeMax(pv, i - 1), pv[i])

\* drawdowns[i] = (pv[i] - cumulative_max[i]) / cumulative_max[i]
Drawdown(pv, i) ==
    RDiv(RSub(pv[i], CumulativeMax(pv, i)), CumulativeMax(pv, i))

\* the drawdown of the last portfolio value alone
DrawdownAtEnd(pv, i) == Drawdown(pv, i)

\* np.min(drawdowns)
RECURSIVE MinDrawdown(_, _)
MinDrawdown(pv, i) ==
    IF i = 1 THEN Drawdown(pv, 1)
    ELSE RMin(MinDrawdown(pv, i - 1), Drawdown(pv, i))

\* what numpy makes of x / 0: not a number of the model
NaN == <<0, 0>>

\* a Sharpe ratio computed without the guard
SharpeRatioUnguarded(rs) == IF StdPositive(rs) THEN Mean(rs) ELSE NaN

\* sharpe_ratio: mean / std * sqrt(252) under the guard (the model keeps the
\* mean, whose sign and zero it shares), 0 otherwise
SharpeRatio(rs) == IF Len(rs) > 1 /\ StdPositive(rs) THEN Mean(rs) ELSE R(0)

\* an info mapping without the Sharpe ratio
EpisodeInfoWithoutSharpe(price, bal, shares, trades, rs, pv) ==
    LET final_value == PortfolioValue(bal, shares, price)
        total_return == RDiv(RSub(final_value, R(InitialBalance)),
                             R(InitialBalance))
        buy_hold == RDiv(RSub(price, PriceAt(0)), PriceAt(0))
    IN  [keys |-> {"total_return", "max_drawdown", "total_trades",
                   "final_balance", "buy_hold_return", "profit_vs_buy_hold"},
         total_return |-> total_return,
         sharpe_ratio |-> R(0),
         sharpe_guard |-> FALSE,
         max_drawdown |-> MinDrawdown(pv, Len(pv)),
         total_trades |-> trades,
         final_balance |-> final_value,
         buy_hold_return |-> buy_hold,
         profit_vs_buy_hold |-> RSub(total_return, buy_hold)]

\* the info mapping of the step that ends the episode.  sharpe_ratio is
\* mean/std*sqrt(252) when sharpe_guard holds (the model keeps its mean, whose
\* sign and zero it shares) and 0 otherwise.
EpisodeInfo(price, bal, shares, trades, rs, pv) ==
    LET final_value == PortfolioValue(bal, shares, price)
        total_return == RDiv(RSub(final_value, R(InitialBalance)),
                             R(InitialBalance))
        guard == Len(rs) > 1 /\ StdPositive(rs)
        buy_hold == RDiv(RSub(price, PriceAt(0)), PriceAt(0))
    IN  [keys |-> {"total_return", "sharpe_ratio", "max_drawdown",
                   "total_trades", "final_balance", "buy_hold_return",
                   "profit_vs_buy_hold"},
         total_return |-> total_return,
         sharpe_ratio |-> SharpeRatio(rs),
         sharpe_guard |-> guard,
         max_drawdown |-> MinDrawdown(pv, Len(pv)),
         total_trades |-> trades,
         final_balance |-> final_value,
         buy_hold_return |-> buy_hold,
         profit_vs_buy_hold |-> RSub(total_return, buy_hold)]

\* an episode that ends one step later, at the length of the series
EpisodeDoneAtLength(step) == step >= Len(df)

\* done = self.current_step >= len(self.df) - 1
EpisodeDone(step) == step >= Len(df) - 1

\* step(action)
EnvStep(action) ==
    IF ~InRange(current_step)
    THEN \* _get_current_price raises IndexError before the action is looked at
         /\ env_ret' = [op |-> "step", action |-> R(0), raised |-> TRUE,
                        terminated |-> FALSE, info |-> NoInfo,
                        pre |-> EnvSnapshot]
         /\ UNCHANGED <<envConfig, envState>>
    ELSE IF PriceAt(current_step) = R(0) /\ RLt(R(0), action)
    THEN \* int(buy_amount / current_price) raises on a price of 0, before
         \* _execute_trade has assigned anything
         /\ env_ret' = [op |-> "step", action |-> action, raised |-> TRUE,
                        terminated |-> FALSE, info |-> NoInfo,
                        pre |-> EnvSnapshot]
         /\ UNCHANGED <<envConfig, envState>>
    ELSE LET price == PriceAt(current_step)
             t == ExecuteTrade(action, price)
             rw == CalculateReward(t.fee, t.balance, t.shares_held)
             value == PortfolioValue(t.balance, t.shares_held, price)
             rs == Append(returns, rw.reward)
             pv == Append(portfolio_values, value)
             done == EpisodeDone(current_step + 1)
             \* the closing _get_observation raises IndexError past the last bar
             raises == ~InRange(current_step + 1)
         IN  /\ balance' = t.balance
             /\ shares_held' = t.shares_held
             /\ total_shares_bought' = t.total_shares_bought
             /\ total_shares_sold' = t.total_shares_sold
             /\ total_trades' = t.total_trades
             /\ max_net_worth' = rw.max_net_worth
             /\ returns' = rs
             /\ portfolio_values' = pv
             /\ net_worth' = value
             /\ current_step' = current_step + 1
             /\ env_ret' =
                  [op |-> "step", action |-> action, raised |-> raises,
                   terminated |-> done /\ ~raises,
                   info |-> IF done /\ ~raises
                            THEN EpisodeInfo(price, t.balance, t.shares_held,
                                             t.total_trades, rs, pv)
                            ELSE NoInfo,
                   pre |-> EnvSnapshot]
             /\ UNCHANGED envConfig

NextEnv ==
    \/ \E action \in Actions : EnvStep(action)
    \/ EnvReset

(***************************************************************************)
(* RiskManager                                                             *)
(***************************************************************************)
\* Python's None where a float is expected, and where a date is expected
None == <<0, 0>>
NoDate == -1

\* the constructor's defaults
stop_loss_pct == Rat(2, 100)
daily_loss_limit == Rat(5, 100)
max_drawdown == Rat(15, 100)
min_balance == R(10000)

\* the portfolio values and cash balances handed to can_trade
PortfolioValues == {R(0), R(80000), R(94000), R(95000), R(100000)}
CashBalances == {R(5000), R(20000)}

\* the fields of the manager that the gate reads and writes, as one value
Gate ==
    [daily_start_value |-> daily_start_value,
     peak_portfolio_value |-> peak_portfolio_value,
     trades_today |-> trades_today,
     current_date |-> current_date,
     trading_enabled |-> trading_enabled,
     circuit_breaker_triggered |-> circuit_breaker_triggered,
     trip_cause |-> trip_cause]

\* the whole manager before a call, kept with what the call returned
RiskSnapshot ==
    [gate |-> Gate, positions |-> positions, trade_history |-> trade_history,
     today |-> today, emergency_stopped |-> emergency_stopped]

\* a call that takes or returns less than these fields leaves the rest empty
Ret(op, pre) ==
    [op |-> op, v |-> None, b |-> None, symbol |-> "", price |-> None,
     action |-> None, volatility |-> None, shares |-> 0,
     ok |-> FALSE, reason |-> "", raised |-> FALSE, pre |-> pre]

\* RiskManager.__init__
RiskConstructed ==
    /\ positions = [sym \in {} |-> 0]
    /\ daily_start_value = None
    /\ peak_portfolio_value = None
    /\ trades_today = 0
    /\ current_date = NoDate
    /\ trading_enabled = TRUE
    /\ circuit_breaker_triggered = FALSE
    /\ trade_history = <<>>
    /\ today = 0
    /\ trip_cause = "none"
    /\ emergency_stopped = FALSE
    /\ rm_ret = Ret("init",
                    [gate |-> [daily_start_value |-> None,
                               peak_portfolio_value |-> None,
                               trades_today |-> 0, current_date |-> NoDate,
                               trading_enabled |-> TRUE,
                               circuit_breaker_triggered |-> FALSE,
                               trip_cause |-> "none"],
                     positions |-> [sym \in {} |-> 0],
                     trade_history |-> <<>>, today |-> 0,
                     emergency_stopped |-> FALSE])

\* the new-day branch of reset_daily_counters with the breaker left as it is
ResetDailyCountersKeepingBreaker(g, v) ==
    IF g.current_date # today
    THEN [g EXCEPT !.current_date = today,
                   !.daily_start_value = v,
                   !.trades_today = 0,
                   !.peak_portfolio_value = IF @ = None THEN v ELSE RMax(@, v)]
    ELSE g

\* reset_daily_counters(portfolio_value)
ResetDailyCounters(g, v) ==
    IF g.current_date # today
    THEN LET g1 == [g EXCEPT !.current_date = today,
                             !.daily_start_value = v,
                             !.trades_today = 0,
                             !.peak_portfolio_value =
                                 IF @ = None THEN v ELSE RMax(@, v)]
         IN  IF g1.circuit_breaker_triggered
             THEN [g1 EXCEPT !.circuit_breaker_triggered = FALSE,
                             !.trading_enabled = TRUE,
                             !.trip_cause = "none"]
             ELSE g1
    ELSE g

\* what a check hands back: (can_trade, reason), or an exception, and the gate
Passed(g) == [ok |-> TRUE, reason |-> "", raised |-> FALSE, gate |-> g]
Refused(reason, g) == [ok |-> FALSE, reason |-> reason, raised |-> FALSE, gate |-> g]
Raised(g) == [ok |-> FALSE, reason |-> "ZeroDivisionError", raised |-> TRUE, gate |-> g]

\* (start - current) / start, for start # 0
LossFrom(start, current) == RDiv(RSub(start, current), start)

\* a daily-loss test that also trips at a loss equal to the limit
DailyLossExceededInclusive(g, v) ==
    RLe(daily_loss_limit, LossFrom(g.daily_start_value, v))

\* loss > self.daily_loss_limit
DailyLossExceeded(g, v) ==
    RLt(daily_loss_limit, LossFrom(g.daily_start_value, v))

\* check_daily_loss_limit(current_value)
CheckDailyLossLimit(g, v) ==
    IF g.daily_start_value = None THEN Passed(g)
    ELSE IF g.daily_start_value = R(0) THEN Raised(g)
    ELSE IF DailyLossExceeded(g, v)
         THEN Refused("Daily loss exceeds limit",
                      [g EXCEPT !.circuit_breaker_triggered = TRUE,
                                !.trading_enabled = FALSE,
                                !.trip_cause = "daily_loss"])
         ELSE Passed(g)

\* check_max_drawdown(current_value)
CheckMaxDrawdown(g, v) ==
    IF g.peak_portfolio_value = None THEN Passed(g)
    ELSE IF g.peak_portfolio_value = R(0) THEN Raised(g)
    ELSE IF RLt(max_drawdown, LossFrom(g.peak_portfolio_value, v))
         THEN Refused("Drawdown exceeds limit",
                      [g EXCEPT !.circuit_breaker_triggered = TRUE,
                                !.trading_enabled = FALSE,
                                !.trip_cause = "drawdown"])
         ELSE Passed(g)

\* a minimum-balance test that refuses but leaves trading enabled
CheckMinBalanceKeepingTrading(g, b) ==
    IF RLt(b, min_balance)
    THEN Refused("Balance below minimum", g)
    ELSE Passed(g)

\* check_min_balance(balance)
CheckMinBalance(g, b) ==
    IF RLt(b, min_balance)
    THEN Refused("Balance below minimum", [g EXCEPT !.trading_enabled = FALSE])
    ELSE Passed(g)

\* a trade-limit test that lets one trade too many through
CheckTradeLimitOffByOne(g) ==
    IF g.trades_today > max_trades_per_day
    THEN Refused("Max trades per day reached", g)
    ELSE Passed(g)

\* check_trade_limit()
CheckTradeLimit(g) ==
    IF g.trades_today >= max_trades_per_day
    THEN Refused("Max trades per day reached", g)
    ELSE Passed(g)

\* can_trade with the minimum-balance check run before the loss checks
CanTradeChecksBalanceFirst(g, v, b) ==
    LET g1 == ResetDailyCounters(g, v)
    IN  IF g1.circuit_breaker_triggered
        THEN Refused("Circuit breaker triggered - trading disabled", g1)
        ELSE IF ~g1.trading_enabled
        THEN Refused("Trading manually disabled", g1)
        ELSE LET c0 == CheckMinBalance(g1, b)
             IN  IF ~c0.ok THEN c0
                 ELSE LET c1 == CheckDailyLossLimit(c0.gate, v)
                      IN  IF ~c1.ok THEN c1
                          ELSE LET c2 == CheckMaxDrawdown(c1.gate, v)
                               IN  IF ~c2.ok THEN c2
                                   ELSE CheckTradeLimit(c2.gate)

\* can_trade(portfolio_value, balance): what it returns and the gate it leaves
CanTradeChecks(g, v, b) ==
    LET g1 == ResetDailyCounters(g, v)
    IN  IF g1.circuit_breaker_triggered
        THEN Refused("Circuit breaker triggered - trading disabled", g1)
        ELSE IF ~g1.trading_enabled
        THEN Refused("Trading manually disabled", g1)
        ELSE LET c1 == CheckDailyLossLimit(g1, v)
             IN  IF ~c1.ok THEN c1
                 ELSE LET c2 == CheckMaxDrawdown(c1.gate, v)
                      IN  IF ~c2.ok THEN c2
                          ELSE LET c3 == CheckMinBalance(c2.gate, b)
                               IN  IF ~c3.ok THEN c3
                                   ELSE CheckTradeLimit(c3.gate)

SetGate(g) ==
    /\ daily_start_value' = g.daily_start_value
    /\ peak_portfolio_value' = g.peak_portfolio_value
    /\ trades_today' = g.trades_today
    /\ current_date' = g.current_date
    /\ trading_enabled' = g.trading_enabled
    /\ circuit_breaker_triggered' = g.circuit_breaker_triggered
    /\ trip_cause' = g.trip_cause

CanTrade(v, b) ==
    LET c == CanTradeChecks(Gate, v, b)
    IN  /\ SetGate(c.gate)
        /\ rm_ret' = [Ret("can_trade", RiskSnapshot) EXCEPT
                          !.v = v, !.b = b, !.ok = c.ok,
                          !.reason = c.reason, !.raised = c.raised]
        /\ UNCHANGED <<positions, trade_history, today, emergency_stopped>>

\* emergency_stop(reason)
EmergencyStop ==
    /\ trading_enabled' = FALSE
    /\ circuit_breaker_triggered' = TRUE
    /\ trip_cause' = "emergency"
    /\ emergency_stopped' = TRUE
    /\ rm_ret' = Ret("emergency_stop", RiskSnapshot)
    /\ UNCHANGED <<positions, daily_start_value, peak_portfolio_value,
                   trades_today, current_date, trade_history, today>>

\* a resume that re-enables trading and leaves the breaker set
ResumeTradingKeepingBreaker ==
    /\ trading_enabled' = TRUE
    /\ emergency_stopped' = FALSE
    /\ rm_ret' = Ret("resume_trading", RiskSnapshot)
    /\ UNCHANGED <<positions, daily_start_value, peak_portfolio_value,
                   trades_today, current_date, trade_history, today,
                   circuit_breaker_triggered, trip_cause>>

\* resume_trading()
ResumeTrading ==
    /\ trading_enabled' = TRUE
    /\ circuit_breaker_triggered' = FALSE
    /\ trip_cause' = "none"
    /\ emergency_stopped' = FALSE
    /\ rm_ret' = Ret("resume_trading", RiskSnapshot)
    /\ UNCHANGED <<positions, daily_start_value, peak_portfolio_value,
                   trades_today, current_date, trade_history, today>>

\* midnight: date.today() moves on; what the last call returned is consumed
NextDay ==
    /\ today < MaxDay
    /\ today' = today + 1
    /\ rm_ret' = Ret("midnight", RiskSnapshot)
    /\ UNCHANGED <<riskState, trip_cause, emergency_stopped>>

\* the symbols traded, and the prices handed to the position operations
Symbols == {"RELIANCE", "TCS"}
EntryPrices == {R(2500), R(2550)}
Quantities == {10}
\* a position opened at 2500 has its stop at 2450, and at 2499 once the price
\* has been seen at 2550
UpdatePrices == {R(2450), R(2550)}
CheckPrices == {R(2449), R(2450), R(2451)}
ExitPrices == {R(2450), R(2550)}

\* no position_info: what a call on a symbol without a position found
NoPosition ==
    [entry_price |-> None, quantity |-> 0, stop_loss_price |-> None,
     entry_time |-> NoDate, highest_price |-> None]

\* self.positions.get(symbol)
PositionOf(symbol) ==
    IF symbol \in DOMAIN positions THEN positions[symbol] ELSE NoPosition

\* what a position operation found before it acted
PositionSnapshot(symbol) ==
    [position |-> PositionOf(symbol), trades_today |-> trades_today,
     n_trades |-> Len(trade_history)]

\* datetime.now(), to the day; and what str() and json make of a datetime or
\* a date: a string
DateTime(day) == [type |-> "datetime", day |-> day]
StrOf(day) == [type |-> "str", day |-> day]

\* price * (1 - self.stop_loss_pct)
StopLossPrice(price) == RMul(price, RSub(R(1), stop_loss_pct))

\* self.positions[symbol] = {...}
OpenedPosition(entry_price, quantity) ==
    [entry_price |-> entry_price, quantity |-> quantity,
     stop_loss_price |-> StopLossPrice(entry_price),
     entry_time |-> DateTime(today), highest_price |-> entry_price]

\* add_position(symbol, entry_price, quantity); the model stops counting the
\* day's trades one past max_trades_per_day
AddPosition(symbol, entry_price, quantity) ==
    /\ trades_today <= max_trades_per_day
    /\ positions' = [sym \in DOMAIN positions \cup {symbol} |->
                        IF sym = symbol
                        THEN OpenedPosition(entry_price, quantity)
                        ELSE positions[sym]]
    /\ trades_today' = trades_today + 1
    /\ rm_ret' = [Ret("add_position", PositionSnapshot(symbol)) EXCEPT
                      !.symbol = symbol, !.price = entry_price]
    /\ UNCHANGED <<daily_start_value, peak_portfolio_value, current_date,
                   trading_enabled, circuit_breaker_triggered, trade_history,
                   today, trip_cause, emergency_stopped>>

\* a trailing stop that follows the price down as well as up
TrailedPositionFollowing(pos, current_price) ==
    [pos EXCEPT !.highest_price = RMax(@, current_price),
                !.stop_loss_price = StopLossPrice(current_price)]

\* the position after update_position(symbol, current_price)
TrailedPosition(pos, current_price) ==
    IF RLt(pos.highest_price, current_price)
    THEN [pos EXCEPT !.highest_price = current_price,
                     !.stop_loss_price = StopLossPrice(current_price)]
    ELSE pos

\* update_position(symbol, current_price)
UpdatePosition(symbol, current_price) ==
    /\ positions' = [sym \in DOMAIN positions |->
                        IF sym = symbol
                        THEN TrailedPosition(positions[sym], current_price)
                        ELSE positions[sym]]
    /\ rm_ret' = [Ret("update_position", PositionSnapshot(symbol)) EXCEPT
                      !.symbol = symbol, !.price = current_price]
    /\ UNCHANGED <<daily_start_value, peak_portfolio_value, trades_today,
                   current_date, trading_enabled, circuit_breaker_triggered,
                   trade_history, today, trip_cause, emergency_stopped>>

\* a stop-loss test that misses the stop price itself
StopLossTriggeredStrict(symbol, current_price) ==
    /\ symbol \in DOMAIN positions
    /\ RLt(current_price, positions[symbol].stop_loss_price)

\* the should_exit of check_stop_loss(symbol, current_price)
StopLossTriggered(symbol, current_price) ==
    /\ symbol \in DOMAIN positions
    /\ RLe(current_price, positions[symbol].stop_loss_price)

\* check_stop_loss(symbol, current_price)
CheckStopLoss(symbol, current_price) ==
    /\ rm_ret' = [Ret("check_stop_loss", PositionSnapshot(symbol)) EXCEPT
                      !.symbol = symbol, !.price = current_price,
                      !.ok = StopLossTriggered(symbol, current_price),
                      !.reason = IF StopLossTriggered(symbol, current_price)
                                 THEN "STOP-LOSS triggered" ELSE ""]
    /\ UNCHANGED <<riskState, today, trip_cause, emergency_stopped>>

\* a trade record whose pnl is that of one share
TradeRecordPerShare(symbol, pos, exit_price) ==
    [symbol |-> symbol,
     entry_price |-> pos.entry_price,
     exit_price |-> exit_price,
     quantity |-> pos.quantity,
     pnl |-> RSub(exit_price, pos.entry_price),
     pnl_pct |-> RDiv(RSub(exit_price, pos.entry_price), pos.entry_price),
     entry_time |-> pos.entry_time,
     exit_time |-> DateTime(today),
     stop_loss_hit |-> RLe(exit_price, pos.stop_loss_price)]

\* the record remove_position appends to trade_history
TradeRecord(symbol, pos, exit_price) ==
    [symbol |-> symbol,
     entry_price |-> pos.entry_price,
     exit_price |-> exit_price,
     quantity |-> pos.quantity,
     pnl |-> RMul(RSub(exit_price, pos.entry_price), R(pos.quantity)),
     pnl_pct |-> RDiv(RSub(exit_price, pos.entry_price), pos.entry_price),
     entry_time |-> pos.entry_time,
     exit_time |-> DateTime(today),
     stop_loss_hit |-> RLe(exit_price, pos.stop_loss_price)]

\* remove_position(symbol, exit_price); the model stops closing positions when
\* trade_history holds MaxHistory records
RemovePosition(symbol, exit_price) ==
    /\ symbol \in DOMAIN positions => Len(trade_history) < MaxHistory
    /\ IF symbol \in DOMAIN positions
       THEN /\ trade_history' =
                   Append(trade_history,
                          TradeRecord(symbol, positions[symbol], exit_price))
            /\ positions' = [sym \in DOMAIN positions \ {symbol} |->
                                positions[sym]]
       ELSE UNCHANGED <<positions, trade_history>>
    /\ rm_ret' = [Ret("remove_position", PositionSnapshot(symbol)) EXCEPT
                      !.symbol = symbol, !.price = exit_price]
    /\ UNCHANGED <<daily_start_value, peak_portfolio_value, trades_today,
                   current_date, trading_enabled, circuit_breaker_triggered,
                   today, trip_cause, emergency_stopped>>

(***************************************************************************)
(* RiskManager.save_state and load_state                                   *)
(***************************************************************************)
\* no file at filepath
NoFile == [exists |-> FALSE]

\* self.trade_history[-100:]
SavedTrades == 100

NothingSaved ==
    /\ state_file = NoFile
    /\ saved_manager = NoFile

\* the last n elements of a sequence
LastN(s, n) == IF Len(s) <= n THEN s ELSE SubSeq(s, Len(s) - n + 1, Len(s))

\* json.dump(..., default=str) of a position and of a trade record: numbers
\* and symbols are JSON values; a datetime becomes its str()
JsonPosition(pos) == [pos EXCEPT !.entry_time = StrOf(@.day)]
JsonTrade(t) == [t EXCEPT !.entry_time = StrOf(@.day),
                          !.exit_time = StrOf(@.day)]

\* the document save_state writes
StateDocument ==
    [exists |-> TRUE,
     positions |-> [sym \in DOMAIN positions |-> JsonPosition(positions[sym])],
     daily_start_value |-> daily_start_value,
     peak_portfolio_value |-> peak_portfolio_value,
     trades_today |-> trades_today,
     current_date |-> StrOf(current_date),
     trading_enabled |-> trading_enabled,
     circuit_breaker_triggered |-> circuit_breaker_triggered,
     trade_history |->
         [i \in 1 .. Len(LastN(trade_history, SavedTrades)) |->
             JsonTrade(LastN(trade_history, SavedTrades)[i])]]

\* save_state(filepath)
SaveState ==
    /\ state_file' = StateDocument
    /\ saved_manager' = [exists |-> TRUE, manager |-> RiskSnapshot]
    /\ rm_ret' = Ret("save_state", RiskSnapshot)
    /\ UNCHANGED <<riskState, today, trip_cause, emergency_stopped>>

\* RiskManager(): another manager takes the place of the one in use
FreshManager ==
    /\ positions' = [sym \in {} |-> 0]
    /\ daily_start_value' = None
    /\ peak_portfolio_value' = None
    /\ trades_today' = 0
    /\ current_date' = NoDate
    /\ trading_enabled' = TRUE
    /\ circuit_breaker_triggered' = FALSE
    /\ trade_history' = <<>>
    /\ trip_cause' = "none"
    /\ emergency_stopped' = FALSE
    /\ rm_ret' = Ret("construct", RiskSnapshot)
    /\ UNCHANGED <<today, persistVars>>

\* load_state with the file deleting what the manager holds when it is missing
LoadStateStartingFresh ==
    /\ IF state_file.exists
       THEN /\ positions' = state_file.positions
            /\ daily_start_value' = state_file.daily_start_value
            /\ peak_portfolio_value' = state_file.peak_portfolio_value
            /\ trades_today' = state_file.trades_today
            /\ trading_enabled' = state_file.trading_enabled
            /\ circuit_breaker_triggered' = state_file.circuit_breaker_triggered
            /\ trade_history' = state_file.trade_history
            /\ trip_cause' = IF state_file.circuit_breaker_triggered
                             THEN "loaded" ELSE "none"
            /\ emergency_stopped' = FALSE
            /\ UNCHANGED current_date
       ELSE /\ positions' = [sym \in {} |-> 0]
            /\ daily_start_value' = None
            /\ peak_portfolio_value' = None
            /\ trades_today' = 0
            /\ trade_history' = <<>>
            /\ UNCHANGED <<current_date, trading_enabled,
                           circuit_breaker_triggered, trip_cause,
                           emergency_stopped>>
    /\ rm_ret' = [Ret("load_state", RiskSnapshot) EXCEPT
                      !.ok = state_file.exists]
    /\ UNCHANGED <<today, persistVars>>

\* load_state(filepath): rm_ret.ok tells whether the file was there; the
\* cause of a loaded breaker is not known to the manager
LoadState ==
    /\ IF state_file.exists
       THEN /\ positions' = state_file.positions
            /\ daily_start_value' = state_file.daily_start_value
            /\ peak_portfolio_value' = state_file.peak_portfolio_value
            /\ trades_today' = state_file.trades_today
            /\ trading_enabled' = state_file.trading_enabled
            /\ circuit_breaker_triggered' = state_file.circuit_breaker_triggered
            /\ trade_history' = state_file.trade_history
            /\ trip_cause' = IF state_file.circuit_breaker_triggered
                             THEN "loaded" ELSE "none"
            /\ emergency_stopped' = FALSE
            /\ UNCHANGED current_date
       ELSE UNCHANGED <<riskState, trip_cause, emergency_stopped>>
    /\ rm_ret' = [Ret("load_state", RiskSnapshot) EXCEPT
                      !.ok = state_file.exists]
    /\ UNCHANGED <<today, persistVars>>

(***************************************************************************)
(* RiskManager.calculate_position_size                                     *)
(***************************************************************************)
\* the constructor's max_position_size and volatility_threshold, as floats
risk_max_position_size == Fl(Rat(20, 100))
volatility_threshold == Fl(Rat(3, 100))

\* what calculate_position_size is called with; every value is a float
SizingActions == {R(-1), Rat(1, 2), R(1)}
SizingBalances == {R(0), R(41), R(100)}
SizingPortfolioValues == {R(41), R(328)}
SizingPrices == {Rat(19, 16), R(3)}
Volatilities == {None, Rat(1, 64), Rat(1, 8)}

\* min(base_position_value, max_position_value)
CappedPositionValue(action, bal, portfolio_value) ==
    RMin(FMul(RAbs(action), bal),
         FMul(portfolio_value, risk_max_position_size))

\* position_value after the volatility adjustment
PositionValue(action, bal, portfolio_value, volatility) ==
    IF volatility # None /\ RLt(volatility_threshold, volatility)
    THEN FMul(CappedPositionValue(action, bal, portfolio_value),
              FDiv(volatility_threshold, volatility))
    ELSE CappedPositionValue(action, bal, portfolio_value)

\* the shares calculate_position_size returns
PositionSize(action, bal, portfolio_value, current_price, volatility) ==
    LET shares == Trunc(FDiv(PositionValue(action, bal, portfolio_value,
                                           volatility),
                             current_price))
    IN  IF RLt(bal, FMul(R(shares), current_price))
        THEN Trunc(FDiv(bal, current_price))
        ELSE shares

\* calculate_position_size(action, balance, portfolio_value, current_price,
\* volatility)
CalculatePositionSize(action, bal, portfolio_value, current_price,
                      volatility) ==
    /\ rm_ret' = [Ret("calculate_position_size", RiskSnapshot) EXCEPT
                      !.action = action, !.b = bal, !.v = portfolio_value,
                      !.price = current_price, !.volatility = volatility,
                      !.shares = PositionSize(action, bal, portfolio_value,
                                              current_price, volatility)]
    /\ UNCHANGED <<riskState, today, trip_cause, emergency_stopped>>

(***************************************************************************)
(* calculate_slippage_zerodha                                              *)
(***************************************************************************)
\* a level of the order book as the broker reports it
Level(price, quantity) == [price |-> price, quantity |-> quantity]

\* depth['buy'] of a quote: the bids, best (highest) first
BidBooks ==
    {<<>>,
     <<Level(99, 50), Level(98, 50)>>,
     <<Level(99, 30)>>,
     <<Level(0, 50)>>}

\* depth['sell'] of a quote: the asks, best (lowest) first; the third book
\* has six levels
AskBooks ==
    {<<>>,
     <<Level(100, 50), Level(101, 50)>>,
     <<Level(100, 10), Level(101, 10), Level(102, 10), Level(103, 10),
       Level(104, 10), Level(105, 10)>>,
     <<Level(0, 50), Level(1, 50)>>}

\* what kite.quote does: it raises, returns no quote, or returns a quote with
\* the two sides of the book
Quotes ==
    {[kind |-> "error", buy |-> <<>>, sell |-> <<>>],
     [kind |-> "empty", buy |-> <<>>, sell |-> <<>>]}
    \cup {[kind |-> "quote", buy |-> b, sell |-> s] :
             b \in BidBooks, s \in AskBooks}

OrderQuantities == {0, 60, 100, 200}
Sides == {"BUY", "SELL"}

\* levels=5 in the call of fetch_market_depth_zerodha
depth_levels == 5
\* the slippage returned without depth data, and after an error
default_slippage == Rat(1, 1000)
\* the slippage returned when the levels cannot fill the order
illiquid_slippage == Rat(5, 1000)

\* s[:n]
Take(s, n) == SubSeq(s, 1, IF Len(s) < n THEN Len(s) ELSE n)

\* fetch_market_depth_zerodha(kite, instrument_token, levels)
FetchMarketDepth(quote, levels) ==
    IF quote.kind = "quote"
    THEN [buy |-> Take(quote.buy, levels), sell |-> Take(quote.sell, levels)]
    ELSE [buy |-> <<>>, sell |-> <<>>]

\* levels = depth['buy'] if side == "BUY" else depth['sell']
WalkedLevels(depth, side) == IF side = "BUY" THEN depth.buy ELSE depth.sell

\* a walk that takes every level whole
ExecutedWholeLevel(remaining, level_qty) == level_qty

\* executed = min(remaining, level_qty)
Executed(remaining, level_qty) ==
    IF remaining < level_qty THEN remaining ELSE level_qty

\* the loop over the levels: what is left of the order and what was paid
RECURSIVE Walk(_, _, _)
Walk(levels, remaining, total_cost) ==
    IF levels = <<>> \/ remaining <= 0
    THEN [remaining |-> remaining, total_cost |-> total_cost]
    ELSE LET executed == Executed(remaining, Head(levels).quantity)
         IN  Walk(Tail(levels), remaining - executed,
                  total_cost + executed * Head(levels).price)

\* the body of the try block: the value returned, or the error raised
SlippageBody(depth, quantity, side) ==
    IF depth.buy = <<>> \/ depth.sell = <<>>
    THEN [value |-> default_slippage, error |-> FALSE]
    ELSE LET levels == WalkedLevels(depth, side)
             w == Walk(levels, quantity, 0)
             best_price == levels[1].price
         IN  IF w.remaining > 0
             THEN [value |-> illiquid_slippage, error |-> FALSE]
             ELSE IF quantity = 0 \/ best_price = 0
                  THEN \* ZeroDivisionError
                       [value |-> R(0), error |-> TRUE]
             ELSE [value |-> RDiv(RAbs(RSub(Rat(w.total_cost, quantity),
                                            R(best_price))),
                                  R(best_price)),
                   error |-> FALSE]

\* a function that lets the error of its body through
SlippageUncaught(body) == [value |-> body.value, raised |-> body.error]

\* except Exception: return 0.001
SlippageCaught(body) ==
    IF body.error THEN [value |-> default_slippage, raised |-> FALSE]
    ELSE [value |-> body.value, raised |-> FALSE]

NoSlippageCall ==
    [op |-> "none", quote |-> [kind |-> "empty", buy |-> <<>>, sell |-> <<>>],
     quantity |-> 0, side |-> "BUY", depth |-> [buy |-> <<>>, sell |-> <<>>],
     walked |-> <<>>, value |-> R(0), raised |-> FALSE]

SlippageIdle == slip_ret = NoSlippageCall

\* calculate_slippage_zerodha(kite, instrument_token, quantity, side), kite
\* answering with quote
CalculateSlippage(quote, quantity, side) ==
    LET depth == FetchMarketDepth(quote, depth_levels)
        out == SlippageCaught(SlippageBody(depth, quantity, side))
    IN  slip_ret' = [op |-> "calculate_slippage", quote |-> quote,
                     quantity |-> quantity, side |-> side, depth |-> depth,
                     walked |-> WalkedLevels(depth, side),
                     value |-> out.value, raised |-> out.raised]

(***************************************************************************)
(* AlertManager                                                            *)
(***************************************************************************)
AlertTypes == {"stop_loss", "circuit_breaker"}
Severities == {"INFO", "WARNING", "CRITICAL"}
\* the threads that call alert on one manager
Threads == {1, 2}

\* self.min_alert_interval, in seconds
min_alert_interval == 300
\* deque(maxlen=100)
deque_maxlen == 100
\* no time: a key missing from last_alert_time, last_data_update = None
NoTime == -1

\* the seconds that pass between two calls on the alert manager
AlertElapsed == {149, 151}

\* deque.append on a deque of maxlen
DequeAppend(d, x, maxlen) ==
    IF Len(d) = maxlen THEN Append(Tail(d), x) ELSE Append(d, x)

ThreadIdle ==
    [pc |-> "idle", alert_type |-> "stop_loss", severity |-> "INFO",
     now |-> NoTime]

AlertSnapshot ==
    [alert_history |-> alert_history, last_alert_time |-> last_alert_time,
     sent |-> sent]

NoAlertCall ==
    [op |-> "none", alert_type |-> "stop_loss", severity |-> "INFO",
     now |-> NoTime, recorded |-> FALSE, pre |-> AlertSnapshot]

\* AlertManager(email_config, telegram_config)
AlertManagerConstructed(emails, telegrams) ==
    /\ email_config \in emails
    /\ telegram_config \in telegrams
    /\ alert_history = <<>>
    /\ last_alert_time = [ty \in AlertTypes |-> NoTime]
    /\ sent = <<>>
    /\ threads = [t \in Threads |-> ThreadIdle]
    /\ am_ret = NoAlertCall

\* a limit that also suppresses at exactly min_alert_interval
RateLimitedInclusive(last, now) ==
    last # NoTime /\ now - last <= min_alert_interval

\* alert_type in self.last_alert_time and
\* (now - self.last_alert_time[alert_type]).total_seconds() < min_alert_interval
RateLimited(last, now) ==
    last # NoTime /\ now - last < min_alert_interval

\* self.last_alert_time[alert_type] = now
Stamped(alert_type, now) == [last_alert_time EXCEPT ![alert_type] = now]

\* self.alert_history.append({...})
Recorded(alert_type, severity, now) ==
    DequeAppend(alert_history,
                [timestamp |-> now, type |-> alert_type,
                 severity |-> severity],
                deque_maxlen)

\* the channels a recorded alert is handed to: send_email and send_telegram
\* for WARNING and CRITICAL, each when it is configured
Channels(severity) ==
    IF severity \in {"WARNING", "CRITICAL"}
    THEN (IF email_config THEN <<"email">> ELSE <<>>)
         \o (IF telegram_config THEN <<"telegram">> ELSE <<>>)
    ELSE <<>>

RECURSIVE Delivered(_, _, _, _)
Delivered(out, channels, alert_type, now) ==
    IF channels = <<>> THEN out
    ELSE Delivered(Append(out, [channel |-> Head(channels),
                                type |-> alert_type, timestamp |-> now]),
                   Tail(channels), alert_type, now)

\* alert(alert_type, severity, message), called by one thread at a time
Alert(alert_type, severity) ==
    /\ \A t \in Threads : threads[t].pc = "idle"
    /\ IF RateLimited(last_alert_time[alert_type], clock)
       THEN UNCHANGED alertState
       ELSE /\ last_alert_time' = Stamped(alert_type, clock)
            /\ alert_history' = Recorded(alert_type, severity, clock)
            /\ sent' = Delivered(sent, Channels(severity), alert_type, clock)
    /\ am_ret' = [op |-> "alert", alert_type |-> alert_type,
                  severity |-> severity, now |-> clock,
                  recorded |-> ~RateLimited(last_alert_time[alert_type],
                                            clock),
                  pre |-> AlertSnapshot]
    /\ UNCHANGED <<email_config, telegram_config, threads>>

\* a thread enters alert and should_send_alert: it reads the clock and looks
\* its type up in last_alert_time; a limited alert returns at once
ThreadCheck(t, alert_type, severity) ==
    /\ threads[t].pc = "idle"
    /\ IF RateLimited(last_alert_time[alert_type], clock)
       THEN /\ am_ret' = [op |-> "alert", alert_type |-> alert_type,
                          severity |-> severity, now |-> clock,
                          recorded |-> FALSE, pre |-> AlertSnapshot]
            /\ UNCHANGED threads
       ELSE /\ threads' = [threads EXCEPT ![t] =
                              [pc |-> "stamp", alert_type |-> alert_type,
                               severity |-> severity, now |-> clock]]
            /\ UNCHANGED am_ret
    /\ UNCHANGED <<email_config, telegram_config, alertState>>

\* the thread writes last_alert_time and returns True from should_send_alert
ThreadStamp(t) ==
    /\ threads[t].pc = "stamp"
    /\ last_alert_time' = Stamped(threads[t].alert_type, threads[t].now)
    /\ threads' = [threads EXCEPT ![t].pc = "record"]
    /\ UNCHANGED <<email_config, telegram_config, alert_history, sent,
                   am_ret>>

\* the thread appends to alert_history, sends and returns
ThreadRecord(t) ==
    /\ threads[t].pc = "record"
    /\ alert_history' = Recorded(threads[t].alert_type, threads[t].severity,
                                 clock)
    /\ sent' = Delivered(sent, Channels(threads[t].severity),
                         threads[t].alert_type, clock)
    /\ am_ret' = [op |-> "alert", alert_type |-> threads[t].alert_type,
                  severity |-> threads[t].severity, now |-> threads[t].now,
                  recorded |-> TRUE, pre |-> AlertSnapshot]
    /\ threads' = [threads EXCEPT ![t] = ThreadIdle]
    /\ UNCHANGED <<email_config, telegram_config, last_alert_time>>

\* time passes
Tick(elapsed, horizon) ==
    /\ clock + elapsed <= horizon
    /\ clock' = clock + elapsed

(***************************************************************************)
(* HealthMonitor                                                           *)
(***************************************************************************)
\* the latencies handed to record_latency, in milliseconds
Latencies == {R(50), R(151)}
MaxLatencies == {R(100)}
\* the seconds that pass between two calls on the health monitor
HealthElapsed == {60, 240}
\* market data: a quote with a price and a volume, and one with a price of 0
MarketData ==
    {[last_price |-> 100, has_volume |-> TRUE],
     [last_price |-> 0, has_volume |-> TRUE]}

\* max_age_seconds=60 of check_data_staleness
max_age_seconds == 60
\* the errors of the last 300 seconds count
error_window == 300
\* the number the count of recent errors is divided by
error_rate_divisor == 5
\* the seconds of a day: timedelta.seconds leaves the days out
day_seconds == 86400

NoHealthCall ==
    [op |-> "none", now |-> NoTime, status |-> "HEALTHY",
     health_score |-> 100, avg_latency_ms |-> R(0), error_rate |-> R(0),
     consecutive_errors |-> 0, data_fresh |-> FALSE, last_update |-> NoTime,
     passed |-> FALSE]

\* HealthMonitor(max_latency_ms)
HealthMonitorConstructed(limits) ==
    /\ max_latency_ms \in limits
    /\ latencies = <<>>
    /\ errors = <<>>
    /\ data_quality_checks = <<>>
    /\ last_data_update = NoTime
    /\ consecutive_errors = 0
    /\ hm_ret = NoHealthCall

\* record_latency(latency_ms)
RecordLatency(latency_ms) ==
    /\ Len(latencies) < MaxSamples
    /\ latencies' = DequeAppend(latencies, latency_ms, deque_maxlen)
    /\ hm_ret' = [NoHealthCall EXCEPT !.op = "record_latency", !.now = clock]
    /\ UNCHANGED <<max_latency_ms, errors, data_quality_checks,
                   last_data_update, consecutive_errors>>

\* record_error(error_type, error_msg)
RecordError ==
    /\ Len(errors) < MaxSamples
    /\ errors' = DequeAppend(errors, clock, deque_maxlen)
    /\ consecutive_errors' = consecutive_errors + 1
    /\ hm_ret' = [NoHealthCall EXCEPT !.op = "record_error", !.now = clock]
    /\ UNCHANGED <<max_latency_ms, latencies, data_quality_checks,
                   last_data_update>>

\* clear_errors()
ClearErrors ==
    /\ consecutive_errors' = 0
    /\ hm_ret' = [NoHealthCall EXCEPT !.op = "clear_errors", !.now = clock]
    /\ UNCHANGED <<max_latency_ms, latencies, errors, data_quality_checks,
                   last_data_update>>

\* all(checks.values()) of check_data_quality
DataQualityPassed(data) == data.last_price > 0 /\ data.has_volume

\* check_data_quality(data)
CheckDataQuality(data) ==
    /\ Len(data_quality_checks) < MaxSamples
    /\ data_quality_checks' =
           DequeAppend(data_quality_checks,
                       [passed |-> DataQualityPassed(data)],
                       deque_maxlen)
    /\ last_data_update' = clock
    /\ hm_ret' = [NoHealthCall EXCEPT !.op = "check_data_quality",
                                      !.now = clock,
                                      !.passed = DataQualityPassed(data)]
    /\ UNCHANGED <<max_latency_ms, latencies, errors, consecutive_errors>>

\* check_data_staleness(): True when the data is fresh
DataFresh(now) ==
    /\ last_data_update # NoTime
    /\ ~(now - last_data_update > max_age_seconds)

\* np.mean of the recorded latencies, 0 without any
AvgLatency ==
    IF latencies = <<>> THEN R(0)
    ELSE RDiv(RSum(latencies), R(Len(latencies)))

\* (datetime.now() - e['timestamp']).seconds
Seconds(delta) == delta % day_seconds

RECURSIVE RecentErrors(_, _)
RecentErrors(errs, now) ==
    IF errs = <<>> THEN 0
    ELSE (IF Seconds(now - Head(errs)) < error_window THEN 1 ELSE 0)
         + RecentErrors(Tail(errs), now)

\* the errors of the last five minutes, divided by 5
ErrorRate(now) == Rat(RecentErrors(errors, now), error_rate_divisor)

\* a score that takes 40 off for data that is not fresh
HealthScoreLenient(avg_latency, error_rate, data_freshness) ==
    100 - (IF RLt(max_latency_ms, avg_latency) THEN 20 ELSE 0)
        - (IF RLt(Rat(1, 10), error_rate) THEN 30 ELSE 0)
        - (IF ~data_freshness THEN 40 ELSE 0)

\* health_score of get_health_status, before max(0, health_score)
HealthScore(avg_latency, error_rate, data_freshness) ==
    100 - (IF RLt(max_latency_ms, avg_latency) THEN 20 ELSE 0)
        - (IF RLt(Rat(1, 10), error_rate) THEN 30 ELSE 0)
        - (IF ~data_freshness THEN 50 ELSE 0)

\* status of get_health_status
HealthStatus(health_score) ==
    IF health_score < 50 THEN "CRITICAL"
    ELSE IF health_score < 80 THEN "DEGRADED"
    ELSE "HEALTHY"

\* get_health_status()
GetHealthStatus ==
    LET avg_latency == AvgLatency
        error_rate == ErrorRate(clock)
        data_freshness == DataFresh(clock)
        health_score == HealthScore(avg_latency, error_rate, data_freshness)
    IN  /\ hm_ret' = [op |-> "get_health_status", now |-> clock,
                      status |-> HealthStatus(health_score),
                      health_score |-> IF health_score < 0 THEN 0
                                       ELSE health_score,
                      avg_latency_ms |-> avg_latency,
                      error_rate |-> error_rate,
                      consecutive_errors |-> consecutive_errors,
                      data_fresh |-> data_freshness,
                      last_update |-> last_data_update,
                      passed |-> FALSE]
        /\ UNCHANGED <<max_latency_ms, healthState>>

(***************************************************************************)
(* PerformanceMonitor                                                      *)
(***************************************************************************)
InitialCapitals == {R(100000)}
\* the pm_trades handed to add_trade: a loss, a flat trade, a gain, and a trade
\* without a pnl
TradesAdded ==
    {[has_pnl |-> TRUE, pnl |-> R(-50)], [has_pnl |-> TRUE, pnl |-> R(0)],
     [has_pnl |-> TRUE, pnl |-> R(120)], [has_pnl |-> FALSE, pnl |-> R(0)]}
\* the portfolio values handed to update_equity
EquityValues == {R(90000), R(100000), R(110000)}

PerfSnapshot ==
    [peak_equity |-> peak_equity, max_drawdown |-> perf_max_drawdown]

NoMetrics ==
    [total_trades |-> 0, wins |-> 0, losses |-> 0, win_rate |-> R(0),
     total_pnl |-> R(0), total_return |-> R(0), current_equity |-> R(0),
     max_drawdown |-> R(0), sharpe_ratio |-> R(0), peak_equity |-> R(0)]

PerfRet(op, pre) ==
    [op |-> op, raised |-> FALSE, metrics |-> NoMetrics, pre |-> pre]

\* PerformanceMonitor(initial_capital)
PerformanceMonitorConstructed(capitals) ==
    /\ initial_capital \in capitals
    /\ pm_trades = <<>>
    /\ equity_curve = <<>>
    /\ daily_returns = <<>>
    /\ peak_equity = initial_capital
    /\ perf_max_drawdown = R(0)
    /\ wins = 0
    /\ losses = 0
    /\ total_pnl = R(0)
    /\ pm_ret = PerfRet("none", [peak_equity |-> initial_capital,
                                 max_drawdown |-> R(0)])

\* trade.get('pnl', 0)
PnlOf(trade) == IF trade.has_pnl THEN trade.pnl ELSE R(0)

\* add_trade(trade)
AddTrade(trade) ==
    /\ Len(pm_trades) < MaxHistory
    /\ pm_trades' = Append(pm_trades, [has_pnl |-> trade.has_pnl,
                                 pnl |-> trade.pnl, timestamp |-> clock])
    /\ total_pnl' = RAdd(total_pnl, PnlOf(trade))
    /\ wins' = IF RLt(R(0), PnlOf(trade)) THEN wins + 1 ELSE wins
    /\ losses' = IF RLt(PnlOf(trade), R(0)) THEN losses + 1 ELSE losses
    /\ pm_ret' = PerfRet("add_trade", PerfSnapshot)
    /\ UNCHANGED <<initial_capital, equity_curve, daily_returns, peak_equity,
                   perf_max_drawdown>>

\* a peak that is never raised
PeakKept(peak, current_value) == peak

\* if current_value > self.peak_equity: self.peak_equity = current_value
PeakAfter(peak, current_value) ==
    IF RLt(peak, current_value) THEN current_value ELSE peak

\* update_equity(current_value)
UpdateEquity(current_value) ==
    LET peak == PeakAfter(peak_equity, current_value)
        drawdown == RDiv(RSub(peak, current_value), peak)
    IN  /\ Len(equity_curve) < MaxHistory
        /\ equity_curve' = Append(equity_curve, [timestamp |-> clock,
                                                 value |-> current_value])
        /\ peak_equity' = peak
        /\ perf_max_drawdown' = IF RLt(perf_max_drawdown, drawdown)
                                THEN drawdown ELSE perf_max_drawdown
        /\ pm_ret' = PerfRet("update_equity", PerfSnapshot)
        /\ UNCHANGED <<initial_capital, pm_trades, daily_returns, wins, losses,
                       total_pnl>>

\* get_metrics()
GetMetrics ==
    LET trade_count == Len(pm_trades)
        current_equity == IF equity_curve # <<>>
                          THEN equity_curve[Len(equity_curve)].value
                          ELSE initial_capital
    IN  /\ pm_ret' =
               [PerfRet("get_metrics", PerfSnapshot) EXCEPT
                    !.metrics =
                        [total_trades |-> trade_count,
                         wins |-> wins,
                         losses |-> losses,
                         win_rate |-> IF trade_count > 0
                                      THEN Rat(wins, trade_count) ELSE R(0),
                         total_pnl |-> total_pnl,
                         total_return |->
                             RDiv(RSub(current_equity, initial_capital),
                                  initial_capital),
                         current_equity |-> current_equity,
                         max_drawdown |-> perf_max_drawdown,
                         sharpe_ratio |->
                             IF Len(daily_returns) > 0
                                /\ StdPositive(daily_returns)
                             THEN Mean(daily_returns) ELSE R(0),
                         peak_equity |-> peak_equity]]
        /\ UNCHANGED <<initial_capital, perfState>>

\* a monitoring layer that is constructed and left alone
MonitoringIdle ==
    /\ clock = 0
    /\ AlertManagerConstructed({FALSE}, {FALSE})
    /\ HealthMonitorConstructed(MaxLatencies)
    /\ PerformanceMonitorConstructed(InitialCapitals)

(***************************************************************************)
(* ZerodhaLiveTrader.execute_action                                        *)
(***************************************************************************)
\* transaction_cost_rate, risk_per_trade and the thresholds of a signal
transaction_cost_rate == Rat(25, 10000)
risk_per_trade == Rat(2, 100)
buy_threshold == Rat(1, 10)
sell_threshold == Rat(-1, 10)

\* initial_balance, and the actions, prices and spreads handed to
\* execute_action
live_initial_balance == R(100000)
LiveActions == {R(1), R(0), Rat(-1, 2), R(-1)}
LivePrices == {R(100)}
LiveSpreads == {R(0), R(8)}

\* what the broker is asked for, and no order
Order(transaction_type, quantity) ==
    [transaction_type |-> transaction_type, quantity |-> quantity]

\* the portfolio before a call, kept with what the call returned
LiveSnapshot ==
    [balance |-> live_balance, shares_held |-> live_shares_held,
     n_trades |-> Len(live_trade_history), n_orders |-> Len(broker_orders)]

\* calculate_slippage(action, current_price, bid_ask_spread)
LiveSlippage(action, bid_ask_spread) ==
    LET base_slippage == RDiv(bid_ask_spread, R(2))
        market_impact == RMul(RMul(base_slippage, RAbs(action)), Rat(1, 2))
    IN  RAdd(base_slippage, market_impact)

\* trade_info as execute_action first builds it; order is what was asked of
\* the broker ("" when nothing was), and the keys set later are empty
TradeInfo(action, current_price, bid_ask_spread) ==
    [action_value |-> action, price |-> current_price,
     bid_ask_spread |-> bid_ask_spread,
     slippage |-> LiveSlippage(action, bid_ask_spread),
     balance_before |-> live_balance, shares_before |-> live_shares_held,
     action |-> "", shares |-> 0, effective_price |-> None, fee |-> None,
     real_trade |-> FALSE, error |-> FALSE,
     balance_after |-> None, shares_after |-> 0, portfolio_value |-> None]

\* the trade a signal asks for once it is sized: HOLD when the action is
\* within the thresholds or there is nothing to sell, "" when the sized trade
\* has no shares or cannot be paid
SizedTrade(action, current_price, bid_ask_spread) ==
    LET slippage_per_share == LiveSlippage(action, bid_ask_spread)
        portfolio_value == RAdd(live_balance,
                                RMul(R(live_shares_held), current_price))
    IN  IF RLt(buy_threshold, action)
        THEN LET max_position_value == RMul(portfolio_value, risk_per_trade)
                 buy_amount == RMin(RMul(live_balance, RAbs(action)),
                                    max_position_value)
                 effective_buy_price == RAdd(current_price, slippage_per_share)
                 shares_to_buy == Trunc(RDiv(buy_amount, effective_buy_price))
                 cost == RMul(R(shares_to_buy), effective_buy_price)
                 transaction_fee == RMul(cost, transaction_cost_rate)
                 total_cost == RAdd(cost, transaction_fee)
             IN  IF shares_to_buy > 0 /\ RLe(total_cost, live_balance)
                 THEN [action |-> "BUY", shares |-> shares_to_buy,
                       effective_price |-> effective_buy_price,
                       fee |-> transaction_fee,
                       balance |-> RSub(live_balance, total_cost),
                       shares_held |-> live_shares_held + shares_to_buy]
                 ELSE [action |-> "", shares |-> 0, effective_price |-> None,
                       fee |-> None, balance |-> live_balance,
                       shares_held |-> live_shares_held]
        ELSE IF RLt(action, sell_threshold)
        THEN IF live_shares_held > 0
             THEN LET sell_ratio == RMin(RAbs(action), R(1))
                      shares_to_sell == Trunc(RMul(R(live_shares_held),
                                                   sell_ratio))
                      effective_sell_price == RSub(current_price,
                                                   slippage_per_share)
                      revenue == RMul(R(shares_to_sell), effective_sell_price)
                      transaction_fee == RMul(revenue, transaction_cost_rate)
                      net_revenue == RSub(revenue, transaction_fee)
                  IN  IF shares_to_sell > 0
                      THEN [action |-> "SELL", shares |-> shares_to_sell,
                            effective_price |-> effective_sell_price,
                            fee |-> transaction_fee,
                            balance |-> RAdd(live_balance, net_revenue),
                            shares_held |-> live_shares_held - shares_to_sell]
                      ELSE [action |-> "", shares |-> 0,
                            effective_price |-> None, fee |-> None,
                            balance |-> live_balance,
                            shares_held |-> live_shares_held]
             ELSE [action |-> "HOLD", shares |-> 0, effective_price |-> None,
                   fee |-> None, balance |-> live_balance,
                   shares_held |-> live_shares_held]
        ELSE [action |-> "HOLD", shares |-> 0, effective_price |-> None,
              fee |-> None, balance |-> live_balance,
              shares_held |-> live_shares_held]

\* a trader that books the trade whether or not the broker took the order
BookedWhateverTheBroker(raised) == TRUE

\* the portfolio is updated when place_order returned: the except clause
\* returns before the update
Booked(raised) == ~raised

\* a ZerodhaLiveTrader as __init__ leaves it, in paper or in real trading
LiveTraderConstructed(modes) ==
    /\ paper_trading \in modes
    /\ live_balance = live_initial_balance
    /\ live_shares_held = 0
    /\ live_trade_history = <<>>
    /\ broker_orders = <<>>
    /\ live_ret = [op |-> "init", order |-> "none", returned |-> [error |-> FALSE],
                   pre |-> [balance |-> live_initial_balance, shares_held |-> 0,
                            n_trades |-> 0, n_orders |-> 0]]

\* what became of the order: none was placed (paper trading, or no trade to
\* place), the broker took it, or place_order raised
OrderState(trade, accepted) ==
    IF paper_trading \/ trade.action \notin {"BUY", "SELL"} THEN "none"
    ELSE IF accepted THEN "placed" ELSE "raised"

\* trade_info as execute_action returns it
ReturnedInfo(trade_info, trade, order, bal, held) ==
    IF order = "raised"
    THEN [trade_info EXCEPT !.error = TRUE]
    ELSE [trade_info EXCEPT
              !.action = trade.action,
              !.shares = trade.shares,
              !.effective_price = trade.effective_price,
              !.fee = trade.fee,
              !.real_trade = (order = "placed"),
              !.balance_after = bal,
              !.shares_after = held,
              !.portfolio_value = RAdd(bal, RMul(R(held), trade_info.price))]

\* execute_action(action, current_price, bid_ask_spread); accepted tells
\* whether the broker takes the order, should one be placed.  The model stops
\* when trade_history holds MaxHistory entries.
ExecuteAction(action, current_price, bid_ask_spread, accepted) ==
    \E trade \in {SizedTrade(action, current_price, bid_ask_spread)} :
    \E order \in {OrderState(trade, accepted)} :
    \E booked \in {trade.action \in {"BUY", "SELL"}
                       /\ Booked(order = "raised")} :
    \E bal \in {IF booked THEN trade.balance ELSE live_balance} :
    \E held \in {IF booked THEN trade.shares_held ELSE live_shares_held} :
    \E info \in {ReturnedInfo(TradeInfo(action, current_price,
                                         bid_ask_spread),
                               trade, order, bal, held)} :
        /\ Len(live_trade_history) < MaxHistory
        /\ live_balance' = bal
        /\ live_shares_held' = held
        /\ broker_orders' = IF order = "placed"
                            THEN Append(broker_orders,
                                        Order(trade.action, trade.shares))
                            ELSE broker_orders
        /\ live_trade_history' = IF order = "raised" THEN live_trade_history
                                 ELSE Append(live_trade_history, info)
        /\ live_ret' = [op |-> "execute_action", order |-> order,
                        returned |-> info, pre |-> LiveSnapshot]
        /\ UNCHANGED paper_trading

\* a live trader that is constructed and left alone
LiveTraderIdle == LiveTraderConstructed({TRUE})

(***************************************************************************)
(* Specifications.                                                         *)
(***************************************************************************)
\* the environment alone, driven by any actions on any price series
InitEnv ==
    /\ EnvConstructed(PriceSeries, TransactionCosts, MaxPositionSizes)
    /\ RiskConstructed
    /\ NothingSaved
    /\ SlippageIdle
    /\ MonitoringIdle
    /\ LiveTraderIdle

SpecEnv ==
    InitEnv /\ [][NextEnv /\ UNCHANGED <<riskVars, persistVars, slipVars,
                                   monitorVars, liveVars>>]_vars

\* an environment that is constructed and left alone
EnvIdle == EnvConstructed({<<2, 2>>}, {R(0)}, {R(1)})

InitRisk ==
    /\ EnvIdle
    /\ RiskConstructed
    /\ NothingSaved
    /\ SlippageIdle
    /\ MonitoringIdle
    /\ LiveTraderIdle

\* the gate of the risk manager: can_trade over the days, the manual stop and
\* resume, and positions opened on one symbol at one price
NextGate ==
    \/ \E v \in PortfolioValues, b \in CashBalances : CanTrade(v, b)
    \/ EmergencyStop
    \/ ResumeTrading
    \/ NextDay
    \/ AddPosition("RELIANCE", R(2500), 10)

SpecGate ==
    InitRisk /\ [][NextGate /\ UNCHANGED <<envVars, persistVars, slipVars,
                                     monitorVars, liveVars>>]_vars

\* the positions of the risk manager within one day
NextPositions ==
    \/ \E sym \in Symbols, p \in EntryPrices, q \in Quantities :
           AddPosition(sym, p, q)
    \/ \E sym \in Symbols, p \in UpdatePrices : UpdatePosition(sym, p)
    \/ \E sym \in Symbols, p \in CheckPrices : CheckStopLoss(sym, p)
    \/ \E sym \in Symbols, p \in ExitPrices : RemovePosition(sym, p)

SpecPositions ==
    InitRisk /\ [][NextPositions /\ UNCHANGED <<envVars, persistVars, slipVars,
                                          monitorVars, liveVars>>]_vars

\* a manager that asks can_trade, opens and closes one position, is saved,
\* replaced and loaded again, within one day
NextPersist ==
    \/ /\ \/ \E v \in {R(94000), R(100000)} : CanTrade(v, R(20000))
          \/ /\ positions = [sym \in {} |-> 0]
             /\ trade_history = <<>>
             /\ AddPosition("RELIANCE", R(2500), 10)
          \/ RemovePosition("RELIANCE", R(2450))
       /\ UNCHANGED persistVars
    \/ SaveState
    \/ FreshManager
    \/ LoadState

SpecPersist ==
    InitRisk /\ [][NextPersist /\ UNCHANGED <<envVars, slipVars,
                                                monitorVars, liveVars>>]_vars

\* calculate_position_size on a manager that is otherwise left alone
NextSizing ==
    \E action \in SizingActions, bal \in SizingBalances,
       portfolio_value \in SizingPortfolioValues,
       current_price \in SizingPrices, volatility \in Volatilities :
        CalculatePositionSize(action, bal, portfolio_value, current_price,
                              volatility)

SpecSizing ==
    InitRisk /\ [][NextSizing /\ UNCHANGED <<envVars, persistVars, slipVars,
                                       monitorVars, liveVars>>]_vars

\* the slippage function, called on any quote
NextSlippage ==
    \E quote \in Quotes, quantity \in OrderQuantities, side \in Sides :
        CalculateSlippage(quote, quantity, side)

SpecSlippage ==
    InitRisk /\ [][NextSlippage /\ UNCHANGED <<envVars, riskVars, persistVars,
                                               monitorVars, liveVars>>]_vars

\* an alert manager with any channels configured
InitAlerts ==
    /\ EnvIdle
    /\ RiskConstructed
    /\ NothingSaved
    /\ SlippageIdle
    /\ clock = 0
    /\ AlertManagerConstructed(BOOLEAN, BOOLEAN)
    /\ HealthMonitorConstructed(MaxLatencies)
    /\ PerformanceMonitorConstructed(InitialCapitals)
    /\ LiveTraderIdle

\* alerts raised one after the other, as time passes
NextAlerts ==
    \/ /\ \E alert_type \in AlertTypes, severity \in Severities :
              Alert(alert_type, severity)
       /\ UNCHANGED clock
    \/ /\ \E elapsed \in AlertElapsed : Tick(elapsed, MaxClock)
       /\ UNCHANGED alertVars

SpecAlerts ==
    InitAlerts /\ [][NextAlerts /\ UNCHANGED <<envVars, riskVars, persistVars,
                                               slipVars, healthVars,
                                               perfVars, liveVars>>]_vars

\* an alert manager with both channels configured
InitAlertThreads ==
    /\ EnvIdle
    /\ RiskConstructed
    /\ NothingSaved
    /\ SlippageIdle
    /\ clock = 0
    /\ AlertManagerConstructed({TRUE}, {TRUE})
    /\ HealthMonitorConstructed(MaxLatencies)
    /\ PerformanceMonitorConstructed(InitialCapitals)
    /\ LiveTraderIdle

\* critical alerts raised by two threads, whose steps interleave
NextAlertThreads ==
    \/ /\ \/ \E t \in Threads, alert_type \in AlertTypes :
                 ThreadCheck(t, alert_type, "CRITICAL")
          \/ \E t \in Threads : ThreadStamp(t)
          \/ \E t \in Threads : ThreadRecord(t)
       /\ UNCHANGED clock
    \/ /\ \E elapsed \in AlertElapsed : Tick(elapsed, MaxClock)
       /\ UNCHANGED alertVars

SpecAlertThreads ==
    InitAlertThreads
    /\ [][NextAlertThreads /\ UNCHANGED <<envVars, riskVars, persistVars,
                                          slipVars, healthVars,
                                          perfVars, liveVars>>]_vars

\* the health monitor, fed and asked as time passes
NextHealth ==
    \/ /\ \/ \E latency_ms \in Latencies : RecordLatency(latency_ms)
          \/ RecordError
          \/ ClearErrors
          \/ \E data \in MarketData : CheckDataQuality(data)
          \/ GetHealthStatus
       /\ UNCHANGED clock
    \/ /\ \E elapsed \in HealthElapsed : Tick(elapsed, MaxAge)
       /\ UNCHANGED healthVars

SpecHealth ==
    InitRisk /\ [][NextHealth /\ UNCHANGED <<envVars, riskVars, persistVars,
                                             slipVars, alertVars,
                                             perfVars, liveVars>>]_vars

\* the performance monitor, handed trades and portfolio values
NextPerformance ==
    \/ \E trade \in TradesAdded : AddTrade(trade)
    \/ \E current_value \in EquityValues : UpdateEquity(current_value)
    \/ GetMetrics

SpecPerformance ==
    InitRisk /\ [][NextPerformance
                   /\ UNCHANGED <<envVars, riskVars, persistVars, slipVars,
                                  clock, alertVars, healthVars,
                                  liveVars>>]_vars

\* a caller that opens a position only directly after can_trade allowed it,
\* over the days, and closes positions
NextAllowedTrades ==
    \/ \E v \in {R(94000), R(100000)}, b \in CashBalances : CanTrade(v, b)
    \/ NextDay
    \/ /\ rm_ret.op = "can_trade"
       /\ rm_ret.ok
       /\ AddPosition("RELIANCE", R(2500), 10)
    \/ RemovePosition("RELIANCE", R(2550))
    \/ ResumeTrading

SpecAllowedTrades ==
    InitRisk /\ [][NextAllowedTrades /\ UNCHANGED <<envVars, persistVars,
                                                    slipVars, monitorVars,
                                                    liveVars>>]_vars

\* a live trader in paper or in real trading, handed signals while the broker
\* takes or refuses its orders
InitLive ==
    /\ EnvIdle
    /\ RiskConstructed
    /\ NothingSaved
    /\ SlippageIdle
    /\ MonitoringIdle
    /\ LiveTraderConstructed(BOOLEAN)

NextLive ==
    \E action \in LiveActions, current_price \in LivePrices,
       bid_ask_spread \in LiveSpreads, accepted \in BOOLEAN :
        ExecuteAction(action, current_price, bid_ask_spread, accepted)

SpecLive ==
    InitLive /\ [][NextLive /\ UNCHANGED <<envVars, riskVars, persistVars,
                                           slipVars, monitorVars>>]_vars

\* the environment on price series that hold a price of 0; with a fee the
\* balance stays positive, so the portfolio value the reward divides by does
InitZeroPrice ==
    /\ EnvConstructed(ZeroPriceSeries, {Rat(1, 10)}, MaxPositionSizes)
    /\ RiskConstructed
    /\ NothingSaved
    /\ SlippageIdle
    /\ MonitoringIdle
    /\ LiveTraderIdle

SpecZeroPrice ==
    InitZeroPrice /\ [][NextEnv /\ UNCHANGED <<riskVars, persistVars,
                                               slipVars, monitorVars,
                                               liveVars>>]_vars

\* the environment stepped by a driver that also holds a risk manager, asks
\* it can_trade, and stops and resumes it
InitEnvAndRisk ==
    /\ EnvConstructed({<<2, 3, 2>>}, {Rat(1, 10)}, {Rat(1, 2)})
    /\ RiskConstructed
    /\ NothingSaved
    /\ SlippageIdle
    /\ MonitoringIdle
    /\ LiveTraderIdle

NextEnvAndRisk ==
    \/ NextEnv /\ UNCHANGED riskVars
    \/ /\ \/ \E v \in {R(94000), R(100000)} : CanTrade(v, R(20000))
          \/ EmergencyStop
          \/ ResumeTrading
       /\ UNCHANGED envVars

SpecEnvAndRisk ==
    InitEnvAndRisk /\ [][NextEnvAndRisk /\ UNCHANGED <<persistVars, slipVars,
                                                       monitorVars,
                                                       liveVars>>]_vars

(***************************************************************************)
(* Properties of StockTradingEnv, checked under SpecEnv.                   *)
(***************************************************************************)
\* the last call was a step that reached _execute_trade
Traded == env_ret.op = "step" /\ InRange(env_ret.pre.current_step)

\* the price the last step traded at
TradedPrice == R(df[env_ret.pre.current_step + 1])

\* the portfolio is as it was before the last call
PortfolioUntouched ==
    /\ balance = env_ret.pre.balance
    /\ shares_held = env_ret.pre.shares_held
    /\ total_trades = env_ret.pre.total_trades

\* the shares a buy of the last step asked for, and what they cost with the fee
AskedShares ==
    LET frac == IF RLt(max_position_size, env_ret.action)
                THEN max_position_size ELSE env_ret.action
    IN  Trunc(RDiv(RMul(env_ret.pre.balance, frac), TradedPrice))
AskedCost ==
    RMul(RMul(R(AskedShares), TradedPrice), RAdd(R(1), transaction_cost))

\* C1: the cash balance is never negative, after reset and after every step,
\* and a buy whose cost plus fee exceeds the balance is rejected: it leaves
\* balance, shares_held and total_trades as they were.
C1_BalanceNeverNegative ==
    /\ RLe(R(0), balance)
    /\ (Traded /\ RLt(R(0), env_ret.action)
               /\ RLt(env_ret.pre.balance, AskedCost))
           => PortfolioUntouched

\* a buy of at least one share was asked for and was rejected for its cost
C1_Witness ==
    /\ Traded
    /\ RLt(R(0), env_ret.action)
    /\ AskedShares > 0
    /\ RLt(env_ret.pre.balance, AskedCost)
    /\ PortfolioUntouched

\* C2: shares_held is never negative, and a sell action taken while no share
\* is held leaves shares_held, balance and total_trades unchanged.
C2_LongOnly ==
    /\ shares_held >= 0
    /\ (Traded /\ RLt(env_ret.action, R(0)) /\ env_ret.pre.shares_held = 0)
           => PortfolioUntouched

\* a sell was asked for after everything bought had already been sold
C2_Witness ==
    /\ Traded
    /\ RLt(env_ret.action, R(0))
    /\ env_ret.pre.shares_held = 0
    /\ env_ret.pre.total_shares_sold > 0
    /\ PortfolioUntouched

(***************************************************************************)
(* Properties of the gate of RiskManager, checked under SpecGate.          *)
(***************************************************************************)
\* the last call was can_trade and it returned (allowed, reason)
CanTradeReturned == rm_ret.op = "can_trade" /\ ~rm_ret.raised

\* the gate as the last call found it
PreGate == rm_ret.pre.gate

\* the last call was made on the date of the call before it, with the day's
\* start value recorded and not zero
SameDayCall ==
    /\ PreGate.current_date = rm_ret.pre.today
    /\ PreGate.daily_start_value # None
    /\ PreGate.daily_start_value # R(0)

\* the last call was the first one on a date after the one of the call before it
NewDayCall ==
    /\ PreGate.current_date # NoDate
    /\ PreGate.current_date < rm_ret.pre.today

\* (start - v) / start of the last call is defined and over the limit
LossOver(start, limit) ==
    /\ start # None
    /\ start # R(0)
    /\ RLt(limit, RDiv(RSub(start, rm_ret.v), start))

\* a loss exactly equal to the limit does not make the daily-loss check trip
C3_EqualLossPasses ==
    (/\ CanTradeReturned
     /\ SameDayCall
     /\ RDiv(RSub(PreGate.daily_start_value, rm_ret.v),
             PreGate.daily_start_value) = daily_loss_limit)
        => /\ rm_ret.reason # "Daily loss exceeds limit"
           /\ trip_cause = "daily_loss" => PreGate.trip_cause = "daily_loss"

\* C3 as claimed: on the date for which daily_start_value D was recorded, a
\* can_trade(v, b) with (D - v)/D > daily_loss_limit returns allowed=false and
\* leaves circuit_breaker_triggered=true and trading_enabled=false; a loss
\* equal to the limit does not trip.
C3_AsClaimed ==
    /\ (/\ CanTradeReturned
        /\ SameDayCall
        /\ LossOver(PreGate.daily_start_value, daily_loss_limit))
           => /\ ~rm_ret.ok
              /\ circuit_breaker_triggered
              /\ ~trading_enabled
    /\ C3_EqualLossPasses

\* C3 as amended: such a call returns allowed=false and leaves
\* trading_enabled=false, and leaves circuit_breaker_triggered=true unless it
\* found trading already disabled with the breaker clear (a minimum-balance
\* refusal), when it returns at the manual-disable check and the breaker
\* stays clear; a loss equal to the limit does not trip.
C3_DailyLossTrip ==
    /\ (/\ CanTradeReturned
        /\ SameDayCall
        /\ LossOver(PreGate.daily_start_value, daily_loss_limit))
           => /\ ~rm_ret.ok
              /\ ~trading_enabled
              /\ circuit_breaker_triggered
                     <=> (PreGate.trading_enabled
                          \/ PreGate.circuit_breaker_triggered)
    /\ C3_EqualLossPasses

\* the day started at 100000 and can_trade(94000, b) tripped the breaker
C3_Witness ==
    /\ CanTradeReturned
    /\ SameDayCall
    /\ PreGate.daily_start_value = R(100000)
    /\ rm_ret.v = R(94000)
    /\ PreGate.trading_enabled
    /\ ~rm_ret.ok
    /\ rm_ret.reason = "Daily loss exceeds limit"
    /\ circuit_breaker_triggered
    /\ ~trading_enabled

\* the last call was the first one on a later date, and found the breaker
\* set by the named check and no emergency stop in force
FirstCallAfterTrip(cause) ==
    /\ rm_ret.op = "can_trade"
    /\ NewDayCall
    /\ PreGate.circuit_breaker_triggered
    /\ PreGate.trip_cause = cause
    /\ ~rm_ret.pre.emergency_stopped

\* the value of the last call is within max_drawdown of the peak the call
\* compares it with: the larger of the recorded peak and the value itself
WithinDrawdown ==
    /\ rm_ret.v # R(0)
    /\ ~RLt(max_drawdown,
            RDiv(RSub(RMax(PreGate.peak_portfolio_value, rm_ret.v), rm_ret.v),
                 RMax(PreGate.peak_portfolio_value, rm_ret.v)))

\* the last call was handed a value that breaches the daily-loss limit against
\* the start value it found: a value that causes a daily-loss trip
TripValue ==
    /\ PreGate.daily_start_value # R(0)
    /\ LossOver(PreGate.daily_start_value, daily_loss_limit)

\* C4 as claimed: after a daily-loss trip, the first can_trade(v, b) on a
\* later date returns allowed=true for every v that caused the trip, when no
\* emergency stop was issued and b >= min_balance (the daily trade count
\* starts again at 0).
C4_AsClaimed ==
    (/\ FirstCallAfterTrip("daily_loss")
     /\ TripValue
     /\ RLe(min_balance, rm_ret.b))
        => ~rm_ret.raised /\ rm_ret.ok

\* C4 as amended: ... returns allowed=true when, besides, v is within
\* max_drawdown of the peak portfolio value.
C4_NewDayAfterDailyLoss ==
    (/\ FirstCallAfterTrip("daily_loss")
     /\ TripValue
     /\ RLe(min_balance, rm_ret.b)
     /\ WithinDrawdown)
        => ~rm_ret.raised /\ rm_ret.ok

\* tripped at 94000 from 100000, allowed again with 94000 the day after
C4_Witness ==
    /\ FirstCallAfterTrip("daily_loss")
    /\ PreGate.daily_start_value = R(100000)
    /\ rm_ret.v = R(94000)
    /\ rm_ret.ok
    /\ ~circuit_breaker_triggered
    /\ trading_enabled
    /\ daily_start_value = R(94000)

\* C5: after emergency_stop, every can_trade returns allowed=false until
\* resume_trading is called, whatever the date of the call.
C5_EmergencyStopHolds ==
    (rm_ret.op = "can_trade" /\ rm_ret.pre.emergency_stopped)
        => ~rm_ret.raised /\ ~rm_ret.ok

\* C6 as claimed: after a drawdown trip, the first can_trade on a new date
\* ends with circuit_breaker_triggered=false and trading_enabled=true, when
\* no emergency stop was issued.
C6_AsClaimed ==
    FirstCallAfterTrip("drawdown")
        => ~circuit_breaker_triggered /\ trading_enabled

\* C6 as amended: that call, handed v > 0 and b, ends with
\* circuit_breaker_triggered=false and trading_enabled=true iff v is within
\* max_drawdown of the peak portfolio value and b >= min_balance; otherwise
\* the call itself trips the breaker again or disables trading.
C6_NewDayAfterDrawdown ==
    (FirstCallAfterTrip("drawdown") /\ rm_ret.v # R(0))
        => ((~circuit_breaker_triggered /\ trading_enabled)
               <=> (WithinDrawdown /\ RLe(min_balance, rm_ret.b)))

\* tripped by a drawdown, and back to Normal on the first call of the next day
C6_Witness ==
    /\ FirstCallAfterTrip("drawdown")
    /\ rm_ret.v # R(0)
    /\ RLt(rm_ret.v, PreGate.peak_portfolio_value)
    /\ ~circuit_breaker_triggered
    /\ trading_enabled
    /\ rm_ret.ok

\* the gate of the last call once reset_daily_counters has run
ResetGate == ResetDailyCounters(PreGate, rm_ret.v)

\* the checks of can_trade that the last call fails, each taken alone on the
\* gate as reset_daily_counters left it, in the order of the claim
FailingChecks ==
    <<ResetGate.circuit_breaker_triggered,
      ~ResetGate.trading_enabled,
      LossOver(ResetGate.daily_start_value, daily_loss_limit),
      LossOver(ResetGate.peak_portfolio_value, max_drawdown),
      RLt(rm_ret.b, min_balance),
      ResetGate.trades_today >= max_trades_per_day>>

CheckReasons ==
    <<"Circuit breaker triggered - trading disabled",
      "Trading manually disabled",
      "Daily loss exceeds limit",
      "Drawdown exceeds limit",
      "Balance below minimum",
      "Max trades per day reached">>

\* what each check does to the gate when it fails
FailedGate(i) ==
    IF i \in {3, 4}
    THEN [ResetGate EXCEPT !.circuit_breaker_triggered = TRUE,
                           !.trading_enabled = FALSE,
                           !.trip_cause = IF i = 3 THEN "daily_loss"
                                          ELSE "drawdown"]
    ELSE IF i = 5 THEN [ResetGate EXCEPT !.trading_enabled = FALSE]
    ELSE ResetGate

\* C7: can_trade returns at the first failing check in the order breaker
\* flag, manual disable flag, daily loss, drawdown, minimum balance, daily
\* trade count (the flags as reset_daily_counters leaves them): the reason is
\* that of the earliest failing check, only that check acts on the state, and
\* allowed=true is returned only when none fails.
C7_FirstFailingCheck ==
    CanTradeReturned =>
        /\ \A i \in 1 .. 6 :
              (FailingChecks[i] /\ \A j \in 1 .. (i - 1) : ~FailingChecks[j])
                  => /\ ~rm_ret.ok
                     /\ rm_ret.reason = CheckReasons[i]
                     /\ Gate = FailedGate(i)
        /\ (\A i \in 1 .. 6 : ~FailingChecks[i])
              => rm_ret.ok /\ rm_ret.reason = "" /\ Gate = ResetGate

\* a call that breached the daily-loss limit with too small a balance: only
\* the daily-loss check answered
C7_Witness ==
    /\ CanTradeReturned
    /\ ~FailingChecks[1] /\ ~FailingChecks[2]
    /\ FailingChecks[3] /\ FailingChecks[5]
    /\ rm_ret.reason = "Daily loss exceeds limit"
    /\ Gate = FailedGate(3)

\* C8: when can_trade(v, b) returns allowed=true the breaker is clear, trading
\* is enabled, v is within the daily-loss limit of daily_start_value and
\* within max_drawdown of peak_portfolio_value, b >= min_balance and
\* trades_today < max_trades_per_day.
C8_AllowedMeansAllPass ==
    (CanTradeReturned /\ rm_ret.ok) =>
        /\ ~circuit_breaker_triggered
        /\ trading_enabled
        /\ daily_start_value # None /\ daily_start_value # R(0)
        /\ ~LossOver(daily_start_value, daily_loss_limit)
        /\ peak_portfolio_value # None /\ peak_portfolio_value # R(0)
        /\ ~LossOver(peak_portfolio_value, max_drawdown)
        /\ RLe(min_balance, rm_ret.b)
        /\ trades_today < max_trades_per_day

\* allowed at a loss of exactly the limit, one trade short of the day's limit
C8_Witness ==
    /\ CanTradeReturned
    /\ rm_ret.ok
    /\ daily_start_value = R(100000)
    /\ rm_ret.v = R(95000)
    /\ trades_today = max_trades_per_day - 1

(***************************************************************************)
(* Properties of the positions of RiskManager, checked under               *)
(* SpecPositions.                                                          *)
(***************************************************************************)
\* the last call was add_position for a symbol that had an open position
AddedToOpenSymbol ==
    /\ rm_ret.op = "add_position"
    /\ rm_ret.pre.position # NoPosition

\* C9: add_position for a symbol that already has an open position is a
\* no-op: the position keeps its entry_price, quantity, stop_loss_price and
\* highest_price, and trades_today is not incremented.
C9_AddExistingIsNoOp ==
    AddedToOpenSymbol =>
        /\ PositionOf(rm_ret.symbol) = rm_ret.pre.position
        /\ trades_today = rm_ret.pre.trades_today

\* the last call was check_stop_loss
StopLossChecked == rm_ret.op = "check_stop_loss"

\* the position the last call found was open and had not been trailed: its
\* highest price is still its entry price
FoundUntrailed ==
    /\ rm_ret.pre.position # NoPosition
    /\ rm_ret.pre.position.highest_price = rm_ret.pre.position.entry_price

\* what check_stop_loss answers for a position opened at entry_price and not
\* updated since, and for no position
C10_Answer ==
    StopLossChecked =>
        /\ FoundUntrailed =>
              (rm_ret.ok <=>
                  RLe(rm_ret.price,
                      RMul(rm_ret.pre.position.entry_price,
                           RSub(R(1), stop_loss_pct))))
        /\ (FoundUntrailed /\ rm_ret.pre.position.entry_price = R(2500)) =>
              /\ rm_ret.price \in {R(2449), R(2450)} => rm_ret.ok
              /\ rm_ret.price = R(2451) => ~rm_ret.ok
        /\ rm_ret.pre.position = NoPosition => ~rm_ret.ok

\* a step that is a call of check_stop_loss leaves the manager as it was
C10_ReadOnly ==
    rm_ret'.op = "check_stop_loss" =>
        UNCHANGED <<riskState, today, emergency_stopped>>

\* C10: for a position opened at E and not updated since,
\* check_stop_loss(symbol, p) returns should_exit=true iff
\* p <= E * (1 - stop_loss_pct) (E = 2500: true at 2449 and 2450, false at
\* 2451); for a symbol with no open position it returns false; and it never
\* changes the state of the manager.
C10_CheckStopLoss == []C10_Answer /\ [][C10_ReadOnly]_vars

\* the stop price itself, 2450 for an entry at 2500, triggers the exit
C10_Witness ==
    /\ StopLossChecked
    /\ FoundUntrailed
    /\ rm_ret.pre.position.entry_price = R(2500)
    /\ rm_ret.price = R(2450)
    /\ rm_ret.ok
    /\ PositionOf(rm_ret.symbol) = rm_ret.pre.position

\* the last call was update_position
PositionUpdated == rm_ret.op = "update_position"

\* update_position never lowers the stop of the position it was called for
C11_StopOnlyRises ==
    (PositionUpdated /\ rm_ret.pre.position # NoPosition) =>
        /\ PositionOf(rm_ret.symbol) # NoPosition
        /\ RLe(rm_ret.pre.position.stop_loss_price,
               PositionOf(rm_ret.symbol).stop_loss_price)

\* a step that is update_position(symbol, price) with price <= highest_price,
\* or for a symbol without a position, leaves the manager as it was
C11_NoOpCases ==
    (/\ rm_ret'.op = "update_position"
     /\ \/ rm_ret'.symbol \notin DOMAIN positions
        \/ RLe(rm_ret'.price, positions[rm_ret'.symbol].highest_price))
        => UNCHANGED <<riskState, today, emergency_stopped>>

\* C11: over any sequence of update_position(symbol, price) calls on an open
\* position stop_loss_price is non-decreasing; a call with
\* price <= highest_price leaves the position unchanged, and a call for a
\* symbol without a position changes nothing.
C11_TrailingStopOnlyRises == []C11_StopOnlyRises /\ [][C11_NoOpCases]_vars

\* a position trailed up to 2550, then updated at 2450: the stop stays at 2499
C11_Witness ==
    /\ PositionUpdated
    /\ rm_ret.pre.position # NoPosition
    /\ rm_ret.pre.position.entry_price = R(2500)
    /\ rm_ret.pre.position.highest_price = R(2550)
    /\ rm_ret.price = R(2450)
    /\ PositionOf(rm_ret.symbol) = rm_ret.pre.position
    /\ PositionOf(rm_ret.symbol).stop_loss_price = R(2499)

\* the last call was remove_position
PositionRemoved == rm_ret.op = "remove_position"

\* the record at the end of trade_history
LastTrade == trade_history[Len(trade_history)]

\* remove_position on an open position appends one record with the pnl and
\* stop_loss_hit of the claim and deletes the position
C12_OneRecordAppended ==
    (PositionRemoved /\ rm_ret.pre.position # NoPosition) =>
        /\ Len(trade_history) = rm_ret.pre.n_trades + 1
        /\ LastTrade.symbol = rm_ret.symbol
        /\ LastTrade.pnl =
               RMul(RSub(rm_ret.price, rm_ret.pre.position.entry_price),
                    R(rm_ret.pre.position.quantity))
        /\ LastTrade.stop_loss_hit =
               RLe(rm_ret.price, rm_ret.pre.position.stop_loss_price)
        /\ rm_ret.symbol \notin DOMAIN positions

\* a step that is remove_position for a symbol without a position leaves the
\* manager as it was, and every step keeps the records trade_history holds,
\* in their order
C12_HistoryKept ==
    /\ (rm_ret'.op = "remove_position"
        /\ rm_ret'.symbol \notin DOMAIN positions)
           => UNCHANGED <<riskState, today, emergency_stopped>>
    /\ Len(trade_history') >= Len(trade_history)
    /\ SubSeq(trade_history', 1, Len(trade_history)) = trade_history

\* C12: remove_position(symbol, exit_price) on an open position appends
\* exactly one record to the end of trade_history, with
\* pnl = (exit_price - entry_price) * quantity and
\* stop_loss_hit = (exit_price <= stop_loss_price), and deletes the position;
\* on a symbol without a position it changes nothing; and no operation
\* modifies, reorders or removes the records trade_history already holds.
C12_RemovePositionAppends == []C12_OneRecordAppended /\ [][C12_HistoryKept]_vars

\* a second close: 10 shares entered at 2500 leave at the stop, 2450, for a
\* pnl of -500, behind the record of the first close
C12_Witness ==
    /\ PositionRemoved
    /\ rm_ret.pre.position # NoPosition
    /\ rm_ret.pre.position.entry_price = R(2500)
    /\ rm_ret.price = R(2450)
    /\ Len(trade_history) = 2
    /\ LastTrade.pnl = Rat(-500, 1)
    /\ LastTrade.stop_loss_hit

(***************************************************************************)
(* Properties of save_state and load_state, checked under SpecPersist.     *)
(***************************************************************************)
\* the last call was load_state, and it found the file
StateLoaded == rm_ret.op = "load_state" /\ rm_ret.ok

\* the manager load_state was called on was a freshly constructed one
LoadedIntoFresh ==
    /\ rm_ret.pre.positions = [sym \in {} |-> 0]
    /\ rm_ret.pre.trade_history = <<>>
    /\ rm_ret.pre.gate.daily_start_value = None
    /\ rm_ret.pre.gate.peak_portfolio_value = None
    /\ rm_ret.pre.gate.trades_today = 0
    /\ rm_ret.pre.gate.current_date = NoDate
    /\ rm_ret.pre.gate.trading_enabled
    /\ ~rm_ret.pre.gate.circuit_breaker_triggered

\* the manager as save_state found it
SavedManager == saved_manager.manager

\* C13: save_state followed by load_state into a fresh RiskManager yields a
\* manager whose positions, daily_start_value, peak_portfolio_value,
\* trades_today, current_date, trading_enabled and circuit_breaker_triggered
\* equal those of the saved manager.
C13_RoundTrip ==
    (StateLoaded /\ LoadedIntoFresh) =>
        /\ positions = SavedManager.positions
        /\ daily_start_value = SavedManager.gate.daily_start_value
        /\ peak_portfolio_value = SavedManager.gate.peak_portfolio_value
        /\ trades_today = SavedManager.gate.trades_today
        /\ current_date = SavedManager.gate.current_date
        /\ trading_enabled = SavedManager.gate.trading_enabled
        /\ circuit_breaker_triggered =
               SavedManager.gate.circuit_breaker_triggered

\* C14: load_state on a missing file raises no error and leaves every field
\* of the manager (positions, daily and peak values, counters, flags, trade
\* history) as it was before the call.
C14_MissingFileKeepsState ==
    (rm_ret.op = "load_state" /\ ~rm_ret.ok) =>
        /\ ~rm_ret.raised
        /\ Gate = rm_ret.pre.gate
        /\ positions = rm_ret.pre.positions
        /\ trade_history = rm_ret.pre.trade_history

\* a manager with a day started, a trade counted and on record, told to load
\* a file that is not there
C14_Witness ==
    /\ rm_ret.op = "load_state"
    /\ ~rm_ret.ok
    /\ state_file = NoFile
    /\ daily_start_value = R(100000)
    /\ trades_today = 1
    /\ Len(trade_history) = 1

(***************************************************************************)
(* Properties of calculate_position_size, checked under SpecSizing.        *)
(***************************************************************************)
\* the notional of the size the last call returned, n * price
Notional == FMul(R(rm_ret.shares), rm_ret.price)

\* C15: for every action in [-1, 1], cash balance >= 0, portfolio value >= 0,
\* price > 0 and optional volatility, calculate_position_size returns a share
\* count n >= 0 with n * price <= cash balance and
\* n * price <= portfolio_value * max_position_size.
C15_SizeWithinCaps ==
    rm_ret.op = "calculate_position_size" =>
        /\ rm_ret.shares >= 0
        /\ RLe(Notional, rm_ret.b)
        /\ RLe(Notional, FMul(rm_ret.v, risk_max_position_size))

(***************************************************************************)
(* Properties of reset and of the end of the episode, checked under        *)
(* SpecEnv.                                                                *)
(***************************************************************************)
\* C16: after any sequence of step calls, reset() restores the state of a
\* freshly constructed environment: current_step = 0,
\* balance = initial_balance, shares_held = 0, total_trades and the
\* bought/sold counters 0, max_net_worth = initial_balance, returns empty and
\* portfolio_values = [initial_balance].
C16_ResetRestores ==
    env_ret.op = "reset" =>
        /\ current_step = 0
        /\ balance = R(InitialBalance)
        /\ shares_held = 0
        /\ total_trades = 0
        /\ total_shares_bought = 0
        /\ total_shares_sold = 0
        /\ net_worth = R(InitialBalance)
        /\ max_net_worth = R(InitialBalance)
        /\ returns = <<>>
        /\ portfolio_values = <<R(InitialBalance)>>

\* a reset of an environment that had stepped to its last bar and traded
C16_Witness ==
    /\ env_ret.op = "reset"
    /\ env_ret.pre.current_step = Len(df) - 1
    /\ env_ret.pre.total_trades > 0
    /\ env_ret.pre.shares_held > 0
    /\ balance = R(InitialBalance)
    /\ portfolio_values = <<R(InitialBalance)>>

\* the last call was a step that returned
Stepped == env_ret.op = "step" /\ ~env_ret.raised

\* the number of step calls since reset, the last one included, when the last
\* call was one of the first N-1
StepCalls == env_ret.pre.current_step + 1

\* C17: for a series of N >= 2 bars, starting from reset, every action
\* sequence ends the episode after exactly N-1 step calls: step returns
\* terminated=false for the first N-2 calls and terminated=true on call N-1,
\* when the step counter reaches the last index N-1.
C17_TerminatesAfterNMinus1 ==
    (env_ret.op = "step" /\ StepCalls <= Len(df) - 1) =>
        /\ ~env_ret.raised
        /\ current_step = StepCalls
        /\ Len(returns) = StepCalls
        /\ env_ret.terminated <=> StepCalls = Len(df) - 1

\* the second step on three bars ends the episode, the first did not
C17_Witness ==
    /\ Stepped
    /\ Len(df) = 3
    /\ StepCalls = 2
    /\ env_ret.terminated
    /\ current_step = 2

\* C18: once step has returned terminated=true, a further step call made
\* before reset() does not change balance, shares_held or total_trades.
C18_NoStepAfterTermination ==
    (env_ret.op = "step" /\ EpisodeDone(env_ret.pre.current_step)) =>
        PortfolioUntouched

\* the keys of EpisodeStats the claim names
EpisodeStatsKeys ==
    {"total_return", "sharpe_ratio", "max_drawdown", "total_trades",
     "buy_hold_return"}

\* C19: step returns an empty info mapping on every non-terminal step, and on
\* the terminal step an info mapping containing total_return, sharpe_ratio,
\* max_drawdown, total_trades and buy_hold_return.
C19_InfoOnlyAtTermination ==
    Stepped =>
        /\ ~env_ret.terminated => env_ret.info.keys = {}
        /\ env_ret.terminated => EpisodeStatsKeys \subseteq env_ret.info.keys

\* the step that ends an episode of three bars, after one with empty info
C19_Witness ==
    /\ Stepped
    /\ env_ret.terminated
    /\ Len(df) = 3
    /\ EpisodeStatsKeys \subseteq env_ret.info.keys
    /\ env_ret.info.total_trades = total_trades
    /\ total_trades > 0

\* every bar of the series has the price of the first
ConstantSeries == \A i \in 1 .. Len(df) : df[i] = df[1]

\* C20 as claimed: for a constant price series the sharpe_ratio reported at
\* termination is 0 for every action sequence; in general it is 0 whenever
\* fewer than 2 step rewards exist or all step rewards are equal, and it is
\* never computed by dividing by a zero standard deviation.
C20_AsClaimed ==
    (Stepped /\ env_ret.terminated) =>
        /\ ConstantSeries => env_ret.info.sharpe_ratio = R(0)
        /\ (Len(returns) < 2 \/ ~StdPositive(returns))
               => env_ret.info.sharpe_ratio = R(0)
        /\ env_ret.info.sharpe_guard => StdPositive(returns)

\* C20 as amended: for a constant price series the reported sharpe_ratio is 0
\* for every action sequence when transaction_cost = 0 or no trade was
\* executed; in general it is 0 whenever fewer than 2 step rewards exist or
\* all step rewards are equal, and it is never computed by dividing by a zero
\* standard deviation.
C20_SharpeZeroGuard ==
    (Stepped /\ env_ret.terminated) =>
        /\ (ConstantSeries /\ (transaction_cost = R(0) \/ total_trades = 0))
               => env_ret.info.sharpe_ratio = R(0)
        /\ (Len(returns) < 2 \/ ~StdPositive(returns))
               => env_ret.info.sharpe_ratio = R(0)
        /\ env_ret.info.sharpe_guard => StdPositive(returns)

\* three bars at one price and no fee: two trades, two equal rewards, and a
\* Sharpe ratio of 0
C20_Witness ==
    /\ Stepped
    /\ env_ret.terminated
    /\ ConstantSeries
    /\ Len(df) = 3
    /\ transaction_cost = R(0)
    /\ total_trades = 2
    /\ Len(returns) = 2
    /\ ~StdPositive(returns)
    /\ env_ret.info.sharpe_ratio = R(0)

(***************************************************************************)
(* Claims about the slippage function.                                     *)
(***************************************************************************)
Slipped == slip_ret.op = "calculate_slippage"

\* the function saw depth on both sides of the book
BothSides == slip_ret.depth.buy # <<>> /\ slip_ret.depth.sell # <<>>

\* the quantity a side of the book holds
RECURSIVE Held(_)
Held(levels) ==
    IF levels = <<>> THEN 0 ELSE Head(levels).quantity + Held(Tail(levels))

\* the sum over the levels, best to worst, of
\* min(remaining, level.quantity) * level.price
RECURSIVE Filled(_, _)
Filled(levels, remaining) ==
    IF levels = <<>> \/ remaining = 0 THEN 0
    ELSE LET take == IF remaining < Head(levels).quantity
                     THEN remaining ELSE Head(levels).quantity
         IN  take * Head(levels).price + Filled(Tail(levels), remaining - take)

\* |avg - best| / best of an order of q > 0 on levels that hold it, best > 0
FullLiquiditySlippage(levels, q) ==
    RDiv(RAbs(RSub(Rat(Filled(levels, q), q), R(levels[1].price))),
         R(levels[1].price))

\* C21: the slippage function walks the ask levels (depth['sell']) for a BUY
\* and the bid levels (depth['buy']) for a SELL.
C21_BuyWalksAsks ==
    (Slipped /\ BothSides)
        => slip_ret.walked = (IF slip_ret.side = "BUY"
                              THEN slip_ret.depth.sell
                              ELSE slip_ret.depth.buy)

\* C22 as stated: whenever the walked side holds the quantity q > 0 (and its
\* best price is positive), the slippage returned is |avg - best| / best.
C22_AsClaimed ==
    (Slipped /\ slip_ret.quantity > 0
     /\ Held(slip_ret.walked) >= slip_ret.quantity
     /\ slip_ret.walked[1].price > 0)
        => slip_ret.value
               = FullLiquiditySlippage(slip_ret.walked, slip_ret.quantity)

\* C22: when both sides of the book hold levels, the walked side holds the
\* quantity q > 0 and its best price is positive, the slippage returned is
\* |avg - best| / best, avg the filled cost over q, best the first level's
\* price.
C22_FullLiquidity ==
    (Slipped /\ BothSides /\ slip_ret.quantity > 0
     /\ Held(slip_ret.walked) >= slip_ret.quantity
     /\ slip_ret.walked[1].price > 0)
        => slip_ret.value
               = FullLiquiditySlippage(slip_ret.walked, slip_ret.quantity)

\* 60 shares walked over [100 x 50, 101 x 50]: avg = 6010/60, slippage 1/600
C22_Witness ==
    /\ Slipped /\ BothSides
    /\ slip_ret.walked = <<Level(100, 50), Level(101, 50)>>
    /\ slip_ret.quantity = 60
    /\ slip_ret.value = Rat(1, 600)

Alerted == am_ret.op = "alert"

\* the alert of the last call was due: its type was never stamped, or was
\* stamped min_alert_interval or more before the call
AlertDue ==
    LET last == am_ret.pre.last_alert_time[am_ret.alert_type]
    IN  last = NoTime \/ am_ret.now - last >= min_alert_interval

\* the entry the last call asked to record
AlertEntry ==
    [timestamp |-> am_ret.now, type |-> am_ret.alert_type,
     severity |-> am_ret.severity]

RecordedWithin(alert_type, time) ==
    {i \in DOMAIN alert_history :
        /\ alert_history[i].type = alert_type
        /\ alert_history[i].timestamp >= time
        /\ alert_history[i].timestamp < time + min_alert_interval}

\* C25: with two threads calling alert, no interleaving records more than
\* one alert of a type, or hands more than one to a channel, within
\* min_alert_interval.
C25_OnePerIntervalUnderThreads ==
    \A alert_type \in AlertTypes, time \in 0 .. MaxClock :
        Cardinality(RecordedWithin(alert_type, time)) <= 1

(***************************************************************************)
(* Claims about the health monitor.                                        *)
(***************************************************************************)
HealthAsked == hm_ret.op = "get_health_status"

\* the data was never updated, or its last update is more than 60 s old
DataNotFresh ==
    \/ hm_ret.last_update = NoTime
    \/ hm_ret.now - hm_ret.last_update > 60

\* 100, less 20 for a high average latency, 30 for a recent error rate
\* above 0.1 and 50 for data that is not fresh
ClaimedScore ==
    100 - (IF RLt(max_latency_ms, hm_ret.avg_latency_ms) THEN 20 ELSE 0)
        - (IF RLt(Rat(1, 10), hm_ret.error_rate) THEN 30 ELSE 0)
        - (IF DataNotFresh THEN 50 ELSE 0)

\* C28: get_health_status reports the score 100 - 20 (average latency above
\* max_latency_ms) - 30 (recent error rate above 0.1) - 50 (data not fresh),
\* never a negative one, and HEALTHY exactly for a score of 80 or more,
\* DEGRADED for 50 <= score < 80, CRITICAL for a score below 50.
C28_HealthScore ==
    HealthAsked =>
        /\ hm_ret.data_fresh = ~DataNotFresh
        /\ hm_ret.health_score = ClaimedScore
        /\ hm_ret.health_score >= 0
        /\ hm_ret.status \in {"HEALTHY", "DEGRADED", "CRITICAL"}
        /\ hm_ret.status = "HEALTHY" <=> hm_ret.health_score >= 80
        /\ hm_ret.status = "DEGRADED" <=>
               (50 <= hm_ret.health_score /\ hm_ret.health_score < 80)
        /\ hm_ret.status = "CRITICAL" <=> hm_ret.health_score < 50

\* data that is 60 s old is fresh; with a high latency and a recent error the
\* score is 50 and the status DEGRADED
C28_Witness ==
    /\ HealthAsked
    /\ hm_ret.last_update # NoTime
    /\ hm_ret.now - hm_ret.last_update = 60
    /\ hm_ret.data_fresh
    /\ hm_ret.health_score = 50
    /\ hm_ret.status = "DEGRADED"

\* nothing fresh, a high latency and a recent error: score 0, CRITICAL
C28_WitnessCritical ==
    /\ HealthAsked
    /\ hm_ret.health_score = 0
    /\ hm_ret.status = "CRITICAL"

(***************************************************************************)
(* Claims about the environment's trades.                                  *)
(***************************************************************************)
\* can_trade refuses whatever it is asked: trading is disabled and the day
\* has not changed since the manager last saw it
RiskManagerRefuses == ~trading_enabled /\ current_date = today

\* C26: while the risk manager would refuse trading, a step of the
\* environment executes no buy and no sell.
C26_NoTradeWhileRefused ==
    [][(RiskManagerRefuses /\ current_step' = current_step + 1)
           => /\ balance' = balance
              /\ shares_held' = shares_held
              /\ total_trades' = total_trades]_vars

\* C27: a step called before the episode has ended never raises, whatever
\* the action in [-1, 1] and whatever the price, a price of 0 included.
C27_StepNeverRaises ==
    (env_ret.op = "step" /\ env_ret.pre.current_step < Len(df) - 1)
        => ~env_ret.raised

\* C29: for action > 0 the step buys n = floor(balance * min(action,
\* max_position_size) / price) shares exactly when n > 0 and n * price *
\* (1 + transaction_cost) <= balance; shares_held then grows by n, balance
\* falls by n * price * (1 + transaction_cost) and total_trades grows by 1;
\* otherwise the three are unchanged.
C29_BuyFrame ==
    (Traded /\ RLt(R(0), env_ret.action)) =>
        IF AskedShares > 0 /\ RLe(AskedCost, env_ret.pre.balance)
        THEN /\ shares_held = env_ret.pre.shares_held + AskedShares
             /\ balance = RSub(env_ret.pre.balance, AskedCost)
             /\ total_trades = env_ret.pre.total_trades + 1
        ELSE PortfolioUntouched

\* a buy that was executed and paid a fee
C29_Witness ==
    /\ Traded
    /\ RLt(R(0), env_ret.action)
    /\ RLt(R(0), transaction_cost)
    /\ AskedShares > 0
    /\ shares_held = env_ret.pre.shares_held + AskedShares
    /\ balance = RSub(env_ret.pre.balance, AskedCost)

\* the shares a sell of the last step asked for, and what they bring after
\* the fee
AskedSale ==
    LET ratio == IF RLt(R(1), RAbs(env_ret.action))
                 THEN R(1) ELSE RAbs(env_ret.action)
    IN  Trunc(RMul(R(env_ret.pre.shares_held), ratio))
AskedProceeds ==
    RMul(RMul(R(AskedSale), TradedPrice), RSub(R(1), transaction_cost))

\* C30: for action < 0 with shares held the step sells m =
\* floor(shares_held * min(|action|, 1)) shares: balance grows by m * price *
\* (1 - transaction_cost), shares_held falls by m and total_trades grows by
\* 1 exactly when m > 0; action = -1 leaves no share held.
C30_SellFrame ==
    (Traded /\ RLt(env_ret.action, R(0)) /\ env_ret.pre.shares_held > 0) =>
        /\ IF AskedSale > 0
           THEN /\ balance = RAdd(env_ret.pre.balance, AskedProceeds)
                /\ shares_held = env_ret.pre.shares_held - AskedSale
                /\ total_trades = env_ret.pre.total_trades + 1
           ELSE PortfolioUntouched
        /\ env_ret.action = R(-1) => shares_held = 0

\* half of three shares asked for: one share is sold and two are kept
C30_Witness ==
    /\ Traded
    /\ env_ret.action = Rat(-1, 2)
    /\ env_ret.pre.shares_held = 3
    /\ AskedSale = 1
    /\ shares_held = 2
    /\ balance = RAdd(env_ret.pre.balance, AskedProceeds)
    /\ RLt(R(0), transaction_cost)

(***************************************************************************)
(* Claims about the statistics of an episode.                              *)
(***************************************************************************)
\* the highest of the first i portfolio values
RunningMax(i) ==
    CHOOSE top \in {portfolio_values[j] : j \in 1 .. i} :
        \A j \in 1 .. i : RLe(portfolio_values[j], top)

\* (value - running_max) / running_max at the i-th portfolio value
DeclineAt(i) ==
    RDiv(RSub(portfolio_values[i], RunningMax(i)), RunningMax(i))

\* no portfolio value is below the one before it
NonDecreasingHistory ==
    \A i \in 1 .. Len(portfolio_values) - 1 :
        RLe(portfolio_values[i], portfolio_values[i + 1])

\* C31: the max_drawdown reported at termination is the least of
\* (value - running_max) / running_max over the portfolio values, the
\* initial balance first; it is never positive, and it is 0 exactly when
\* the portfolio values never fall.
C31_MaxDrawdown ==
    (Stepped /\ env_ret.terminated) =>
        /\ portfolio_values[1] = R(InitialBalance)
        /\ \E i \in DOMAIN portfolio_values :
               env_ret.info.max_drawdown = DeclineAt(i)
        /\ \A i \in DOMAIN portfolio_values :
               RLe(env_ret.info.max_drawdown, DeclineAt(i))
        /\ RLe(env_ret.info.max_drawdown, R(0))
        /\ env_ret.info.max_drawdown = R(0) <=> NonDecreasingHistory

\* an episode of two steps whose portfolio fell and then rose: the drawdown
\* reported is the decline of the value in between
C31_Witness ==
    /\ Stepped /\ env_ret.terminated
    /\ Len(portfolio_values) = 3
    /\ RLt(portfolio_values[2], portfolio_values[1])
    /\ RLt(portfolio_values[2], portfolio_values[3])
    /\ env_ret.info.max_drawdown = DeclineAt(2)
    /\ RLt(env_ret.info.max_drawdown, DeclineAt(3))

(***************************************************************************)
(* Claims about the performance monitor.                                   *)
(***************************************************************************)
\* the peak at the i-th update_equity: the highest of the initial capital
\* and the values recorded up to it
PeakAtUpdate(i) ==
    CHOOSE top \in {initial_capital} \cup {equity_curve[j].value : j \in 1 .. i} :
        /\ RLe(initial_capital, top)
        /\ \A j \in 1 .. i : RLe(equity_curve[j].value, top)

\* (peak_equity - value) / peak_equity at the i-th update_equity
DrawdownAtUpdate(i) ==
    RDiv(RSub(PeakAtUpdate(i), equity_curve[i].value), PeakAtUpdate(i))

\* the sum of the pnl values of the first n recorded trades
RECURSIVE RecordedPnl(_)
RecordedPnl(n) ==
    IF n = 0 THEN R(0)
    ELSE RAdd(RecordedPnl(n - 1),
              IF pm_trades[n].has_pnl THEN pm_trades[n].pnl ELSE R(0))

\* C32: after any add_trade and update_equity calls peak_equity is at least
\* the initial capital and every recorded value, max_drawdown is the largest
\* (peak_equity - value) / peak_equity of any update and never decreases,
\* total_pnl is the sum of the recorded pnl values, wins + losses is at most
\* the number of recorded trades, and no call is rejected.
C32_Aggregation ==
    /\ RLe(initial_capital, peak_equity)
    /\ \A i \in DOMAIN equity_curve : RLe(equity_curve[i].value, peak_equity)
    /\ \A i \in DOMAIN equity_curve :
           RLe(DrawdownAtUpdate(i), perf_max_drawdown)
    /\ \/ perf_max_drawdown = R(0)
       \/ \E i \in DOMAIN equity_curve :
              perf_max_drawdown = DrawdownAtUpdate(i)
    /\ RLe(pm_ret.pre.max_drawdown, perf_max_drawdown)
    /\ RLe(pm_ret.pre.peak_equity, peak_equity)
    /\ total_pnl = RecordedPnl(Len(pm_trades))
    /\ wins + losses <= Len(pm_trades)
    /\ ~pm_ret.raised

\* a loss and a flat trade recorded, and a value of 90000 recorded after a
\* peak of 110000: drawdown 2/11, one loss, no win
C32_Witness ==
    /\ Len(pm_trades) = 2
    /\ wins + losses = 1
    /\ total_pnl = R(-50)
    /\ Len(equity_curve) = 2
    /\ peak_equity = R(110000)
    /\ perf_max_drawdown = Rat(2, 11)
    /\ pm_ret.op = "get_metrics"
    /\ pm_ret.metrics.max_drawdown = Rat(2, 11)

(***************************************************************************)
(* Properties of the day's trade count, checked under SpecAllowedTrades.   *)
(***************************************************************************)
\* C33: when add_position is called only directly after a can_trade call of
\* the same date that returned allowed, trades_today never exceeds
\* max_trades_per_day; the first can_trade call on a new date sets it to 0 and
\* a can_trade call on the date of the call before leaves it; add_position adds
\* one to it, and remove_position leaves it alone
C33_TradesWithinLimit ==
    /\ trades_today <= max_trades_per_day
    /\ (CanTradeReturned /\ PreGate.current_date # rm_ret.pre.today)
           => trades_today = 0
    /\ (CanTradeReturned /\ PreGate.current_date = rm_ret.pre.today)
           => trades_today = PreGate.trades_today
    /\ rm_ret.op = "add_position"
           => trades_today = rm_ret.pre.trades_today + 1
    /\ rm_ret.op = "remove_position"
           => trades_today = rm_ret.pre.trades_today

\* the day's limit was reached by allowed trades, and the first can_trade call
\* of the next date has set the count back to 0
C33_Witness ==
    /\ CanTradeReturned
    /\ NewDayCall
    /\ PreGate.trades_today = max_trades_per_day
    /\ trades_today = 0
    /\ Len(trade_history) > 0

(***************************************************************************)
(* Properties of a restart, checked under SpecPersist.                     *)
(***************************************************************************)
\* C34: a breaker that was tripped when the state was saved, and the day's
\* trade count, survive a restart on the same date: the can_trade call that
\* finds the loaded breaker returns not allowed and leaves trades_today as it
\* found it
C34_TripSurvivesRestart ==
    (/\ CanTradeReturned
     /\ PreGate.circuit_breaker_triggered
     /\ PreGate.trip_cause = "loaded")
        => /\ ~rm_ret.ok
           /\ trades_today = PreGate.trades_today

(***************************************************************************)
(* Properties of the peak the drawdown is measured from, checked under     *)
(* SpecGate.                                                               *)
(***************************************************************************)
\* C35: after every can_trade(v, b) call peak_portfolio_value is at least
\* every portfolio value handed to can_trade so far, and so at least v, the
\* value the call was just handed, also when it is not the first of its day
C35_PeakCoversValuesSeen ==
    CanTradeReturned => RLe(rm_ret.v, peak_portfolio_value)

(***************************************************************************)
(* Properties of the trailing stop, checked under SpecPositions.           *)
(***************************************************************************)
\* C36: every open position has its stop at highest_price * (1 -
\* stop_loss_pct), and a highest_price that is at least its entry_price
C36_StopTrailsHighest ==
    \A sym \in DOMAIN positions :
        /\ positions[sym].stop_loss_price =
               RMul(positions[sym].highest_price, RSub(R(1), stop_loss_pct))
        /\ RLe(positions[sym].entry_price, positions[sym].highest_price)

\* a position whose price was seen above its entry and then below it: the stop
\* stays under the highest price
C36_Witness ==
    /\ rm_ret.op = "update_position"
    /\ rm_ret.symbol \in DOMAIN positions
    /\ RLt(rm_ret.price, positions[rm_ret.symbol].highest_price)
    /\ RLt(positions[rm_ret.symbol].entry_price,
           positions[rm_ret.symbol].highest_price)
    /\ positions[rm_ret.symbol].stop_loss_price = R(2499)

(***************************************************************************)
(* Properties of the two flags of the gate, checked under SpecGate.        *)
(***************************************************************************)
\* C37: whenever the circuit breaker is triggered trading is disabled
C37_TrippedImpliesDisabled ==
    circuit_breaker_triggered => ~trading_enabled

\* the converse fails: can_trade has just refused for a balance under the
\* minimum, and trading is disabled with the breaker not triggered
C37_Witness ==
    /\ CanTradeReturned
    /\ ~rm_ret.ok
    /\ rm_ret.reason = "Balance below minimum"
    /\ RLt(rm_ret.b, min_balance)
    /\ PreGate.trading_enabled
    /\ ~trading_enabled
    /\ ~circuit_breaker_triggered

\* trading is disabled and the breaker is not triggered: the state a refusal
\* for a balance under the minimum leaves
MinBalanceLatched == ~trading_enabled /\ ~circuit_breaker_triggered

C39_ShareAccounting ==
    /\ shares_held = total_shares_bought - total_shares_sold
    /\ env_ret.op = "reset" => shares_held = 0 /\ total_trades = 0
    /\ env_ret.op = "step" =>
           /\ shares_held # env_ret.pre.shares_held
                  => total_trades = env_ret.pre.total_trades + 1
           /\ shares_held = env_ret.pre.shares_held => PortfolioUntouched
           /\ env_ret.action = R(0) => PortfolioUntouched

\* a buy and then a sale of part of the shares: two trades, and shares left
C39_Witness ==
    /\ env_ret.op = "step"
    /\ shares_held < env_ret.pre.shares_held
    /\ shares_held > 0
    /\ total_shares_sold > 0
    /\ total_trades = 2

(***************************************************************************)
(* Properties of ZerodhaLiveTrader.execute_action, checked under SpecLive. *)
(***************************************************************************)
\* the portfolio of the live trader is as it was before the last call
LivePortfolioUntouched ==
    /\ live_balance = live_ret.pre.balance
    /\ live_shares_held = live_ret.pre.shares_held

\* C40: in real trading, a call whose broker order raises leaves balance and
\* shares_held as they were and appends nothing to trade_history, and a call
\* that changes balance or shares_held is one whose order the broker took
C40_FailedOrderLeavesPortfolio ==
    (live_ret.op = "execute_action" /\ ~paper_trading) =>
        /\ live_ret.order = "raised" =>
               /\ LivePortfolioUntouched
               /\ Len(live_trade_history) = live_ret.pre.n_trades
               /\ Len(broker_orders) = live_ret.pre.n_orders
               /\ live_ret.returned.error
        /\ ~LivePortfolioUntouched =>
               /\ live_ret.order = "placed"
               /\ Len(broker_orders) = live_ret.pre.n_orders + 1
               /\ Len(live_trade_history) = live_ret.pre.n_trades + 1

\* shares are held after a buy the broker took, and the broker has just
\* refused to sell them
C40_Witness ==
    /\ live_ret.op = "execute_action"
    /\ ~paper_trading
    /\ live_ret.order = "raised"
    /\ RLt(live_ret.returned.action_value, R(0))
    /\ live_shares_held > 0
    /\ Len(broker_orders) = 1
    /\ Len(live_trade_history) = 1
    /\ RLt(live_balance, live_initial_balance)

====
